---- MODULE Spec2Model ----
(***************************************************************************)
(* Verification model of comfyui-experiments: the exploration state        *)
(* tracker (state_manager.py), the workflow parameter injectors            *)
(* (image_explorer/config/workflow.py, expression_preset_batch/config/     *)
(* workflow.py), the sweep orchestrator (main.py) and the image-driven     *)
(* batch runner (scripts/expression_preset_batch.py).                      *)
(***************************************************************************)
EXTENDS Integers, Sequences, FiniteSets, TLC

VARIABLES
    file,       \* content of the exploration-state file on disk
    tr,         \* StateManager objects: tr[t] = [state, used]
    lastOp,     \* the last StateManager operation: [op, name]
    heap,       \* Python objects of the workflow graphs: address -> dict
    nextAddr,   \* next free address
    mgr,        \* the workflow manager: [kind, base, cfg]
    loaded,     \* the graph as it was loaded at the manager's construction
    wfs,        \* addresses of the workflows handed to the caller
    injErr,     \* TRUE when the last injector call raised
    run,        \* the current (or last ended) orchestrator invocation
    hist,       \* across invocations: how many started, the axes swept
    gen,        \* a combination generator, its inputs and what it returned
    batch,      \* the run loop of the batch script
    cl,         \* a ComfyUIClient caller, its job on the remote service
    qry,        \* the caller of a StateManager: who called last, what it got
    ep          \* the expression preset node: YAML file and class-level cache

stateVars == <<file, tr, lastOp>>
injVars == <<heap, nextAddr, mgr, loaded, wfs, injErr>>
runVars == <<run, hist>>
auxVars == <<gen, batch, cl, qry, ep>>
vars == <<file, tr, lastOp, heap, nextAddr, mgr, loaded, wfs, injErr, run, hist,
          gen, batch, cl, qry, ep>>

(***************************************************************************)
(* Bounds and universes                                                    *)
(***************************************************************************)
NumAxes == 2            \* number of axes the prompt template declares
MaxListLen == 2         \* longest used_axes list of an initial state file

Range(s) == {s[i] : i \in 1..Len(s)}

\* axis names in the order the template may declare them
AxisPool == <<"hair", "color", "pose", "style">>
\* PromptTemplate.get_axis_names: the declared axes, in declared order
get_axis_names == SubSeq(AxisPool, 1, NumAxes)
\* every name the model uses, in Python's str order (what sorted() yields)
SortedNames == <<"color", "hair", "pose", "style", "x", "y">>
AxisNames == Range(AxisPool)

(***************************************************************************)
(* The state file.  kind: absent | badjson (not valid JSON) | nonobject    *)
(* (valid JSON whose root is a list, string, number or null) | object.     *)
(* For an object, ua describes the value under "used_axes": missing,       *)
(* list (of strings, items), string (items = its characters), number,      *)
(* null, nested (a list holding lists).                                    *)
(***************************************************************************)
FileOf(kind, t, items) == [kind |-> kind, ua |-> [t |-> t, items |-> items]]

SeqsUpTo(S, n) == UNION {[1..k -> S] : k \in 0..n}

InitFiles ==
    {FileOf("absent", "missing", <<>>),
     FileOf("badjson", "missing", <<>>),
     FileOf("nonobject", "missing", <<>>),
     FileOf("object", "missing", <<>>),
     FileOf("object", "number", <<>>),
     FileOf("object", "null", <<>>),
     FileOf("object", "nested", <<>>),
     FileOf("object", "string", <<"x", "y">>)}
    \cup {FileOf("object", "list", s) : s \in SeqsUpTo(AxisNames, MaxListLen)}

\* the file holds a JSON object whose used_axes is a list of strings
WellFormed(f) == f.kind = "object" /\ f.ua.t = "list"

\* sorted(self._used_axes)
Sorted(S) == SelectSeq(SortedNames, LAMBDA n : n \in S)

\* StateManager._load: the outcome of constructing a manager on file f
StateManager_load(f) ==
    CASE f.kind = "absent" ->
            [state |-> "ok", used |-> {}]                \* not exists(): set()
      [] f.kind = "badjson" ->
            [state |-> "ok", used |-> {}]                \* JSONDecodeError: set()
      [] f.kind = "nonobject" ->
            [state |-> "raised", used |-> {}]            \* data.get: AttributeError, re-raised
      [] f.kind = "object" /\ f.ua.t = "missing" ->
            [state |-> "ok", used |-> {}]                \* data.get("used_axes", [])
      [] f.kind = "object" /\ f.ua.t \in {"list", "string"} ->
            [state |-> "ok", used |-> Range(f.ua.items)] \* set(list) / set(str)
      [] OTHER ->
            [state |-> "raised", used |-> {}]            \* set(5), set(None), set([[..]]): TypeError

\* a _save that keeps what the file holds and adds the in-memory set
StateManager_save_merging(used) == FileOf("object", "list", Sorted(used \cup StateManager_load(file).used))

\* StateManager._save: the file written for the in-memory set
StateManager_save(used) == FileOf("object", "list", Sorted(used))

\* a get_remaining_axes that forgets the used set
get_remaining_axes_ignoring_used(used, all_axis_names) == all_axis_names

\* StateManager.get_remaining_axes
get_remaining_axes(used, all_axis_names) ==
    SelectSeq(all_axis_names, LAMBDA name : name \notin used)

NoTracker == [state |-> "none", used |-> {}]
Op(o, n) == [op |-> o, name |-> n]

\* StateManager.__init__ for tracker t (t = 2: a new manager on the same file)
Construct(t) ==
    /\ tr[t].state = "none"
    /\ t = 2 => tr[1].state = "ok"
    /\ tr' = [tr EXCEPT ![t] = StateManager_load(file)]
    /\ UNCHANGED <<file, lastOp>>

\* the second manager goes out of scope
Discard(t) ==
    /\ tr[t].state = "ok"
    /\ tr' = [tr EXCEPT ![t] = NoTracker]
    /\ UNCHANGED <<file, lastOp>>

\* StateManager.mark_as_used
mark_as_used(t, axis_name) ==
    /\ tr[t].state = "ok"
    /\ tr' = [tr EXCEPT ![t].used = @ \cup {axis_name}]
    /\ file' = StateManager_save(tr'[t].used)
    /\ lastOp' = Op("mark", axis_name)

\* a remove_axis that forgets to persist
remove_axis_nosave(t, axis_name) ==
    /\ tr[t].state = "ok"
    /\ tr' = [tr EXCEPT ![t].used = @ \ {axis_name}]
    /\ file' = file
    /\ lastOp' = Op("remove", axis_name)

\* a remove_axis that empties the set
remove_axis_clearing(t, axis_name) ==
    /\ tr[t].state = "ok"
    /\ tr' = [tr EXCEPT ![t].used = {}]
    /\ file' = StateManager_save({})
    /\ lastOp' = Op("remove", axis_name)

\* StateManager.remove_axis
remove_axis(t, axis_name) ==
    /\ tr[t].state = "ok"
    /\ IF axis_name \notin tr[t].used
       THEN UNCHANGED <<tr, file>>
       ELSE /\ tr' = [tr EXCEPT ![t].used = @ \ {axis_name}]
            /\ file' = StateManager_save(tr'[t].used)
    /\ lastOp' = Op("remove", axis_name)

\* StateManager.reset
reset(t) ==
    /\ tr[t].state = "ok"
    /\ tr' = [tr EXCEPT ![t].used = {}]
    /\ file' = StateManager_save({})
    /\ lastOp' = Op("reset", "")

(***************************************************************************)
(* Workflow graphs.  A graph is made of Python dicts on the heap: the      *)
(* workflow dict (node id -> node), each node dict ("class_type",          *)
(* "inputs") and each inputs dict (input name -> value).  A slot holds a   *)
(* reference to a dict, a scalar (int, float, str, None) or a link, the    *)
(* list [producer node id, output index].                                  *)
(***************************************************************************)
R(a) == [t |-> "ref", a |-> a, n |-> 0, s |-> ""]
I(n) == [t |-> "int", a |-> 0, n |-> n, s |-> ""]
F(n) == [t |-> "float", a |-> 0, n |-> n, s |-> ""]
S(s) == [t |-> "str", a |-> 0, n |-> 0, s |-> s]
L(s, n) == [t |-> "link", a |-> 0, n |-> n, s |-> s]
PyNone == [t |-> "none", a |-> 0, n |-> 0, s |-> ""]

IsRef(slot) == slot.t = "ref"
\* isinstance(existing, list)
IsLink(slot) == slot.t = "link"

\* d[key] = value on a dict value
DictSet(d, key, value) ==
    [k \in DOMAIN d \cup {key} |-> IF k = key THEN value ELSE d[k]]

\* the addresses reachable from a within depth d
RECURSIVE Reach(_, _, _)
Reach(h, a, d) ==
    IF d = 0 THEN {a}
    ELSE {a} \cup UNION {Reach(h, h[a][k].a, d - 1) :
                           k \in {x \in DOMAIN h[a] : IsRef(h[a][x])}}

GraphDepth == 2     \* workflow dict -> node dict -> inputs dict

\* the JSON value of the dict at address a
RECURSIVE Value(_, _, _)
Value(h, a, d) ==
    [k \in DOMAIN h[a] |->
        IF IsRef(h[a][k]) /\ d > 0
        THEN [t |-> "dict", v |-> Value(h, h[a][k].a, d - 1)]
        ELSE [t |-> "leaf", v |-> h[a][k]]]

Graph(h, a) == Value(h, a, GraphDepth)

\* copy.copy: a new workflow dict that shares the node dicts
ShallowCopy(h, a, n0) ==
    [h |-> (n0 :> h[a]) @@ h, addr |-> n0, next |-> n0 + 1]

\* copy.deepcopy: every reachable dict is copied to a fresh address
DeepCopy(h, a, n0) ==
    LET old == Reach(h, a, GraphDepth)
        new(x) == n0 + Cardinality({y \in old : y < x})
        copy(x) == [k \in DOMAIN h[x] |->
                      IF IsRef(h[x][k]) THEN R(new(h[x][k].a)) ELSE h[x][k]]
        fresh == {new(x) : x \in old}
        inv(y) == CHOOSE x \in old : new(x) = y
    IN  [h |-> [y \in fresh |-> copy(inv(y))] @@ h,
         addr |-> new(a),
         next |-> n0 + Cardinality(old)]

\* WorkflowManager.get_base_workflow / EPBWorkflowManager.get_base_workflow
get_base_workflow(h, base, n0) == DeepCopy(h, base, n0)

Res(h, err) == [h |-> h, err |-> err]

(***************************************************************************)
(* image_explorer WorkflowManager                                          *)
(***************************************************************************)
\* WorkflowConfig.node_mapping
node_mapping ==
    [positive_prompt |-> "2", negative_prompt |-> "3", ksampler |-> "4",
     lora |-> "18", save_image |-> "7"]

\* the shared body of _set_prompt, _set_sampler, _set_lora and
\* set_filename_prefix: the guards, then inputs[key] = value for each key
\* of keys, in order; raises when node["inputs"] is not subscriptable
RECURSIVE WM_assign(_, _, _, _)
WM_assign(h, ia, keys, values) ==
    IF keys = <<>> THEN h
    ELSE WM_assign([h EXCEPT ![ia] = DictSet(@, Head(keys), values[Head(keys)])],
                   ia, Tail(keys), values)

WM_set(h, wf, node_id, keys, values) ==
    IF node_id \notin DOMAIN h[wf] THEN Res(h, FALSE)
    ELSE LET node == h[wf][node_id] IN
         IF ~IsRef(node) THEN Res(h, FALSE)          \* "inputs" not in <str>
         ELSE IF "inputs" \notin DOMAIN h[node.a] THEN Res(h, FALSE)
         ELSE LET inputs == h[node.a]["inputs"] IN
              IF ~IsRef(inputs) THEN Res(h, TRUE)    \* TypeError
              ELSE Res(WM_assign(h, inputs.a, keys, values), FALSE)

\* WorkflowManager._set_prompt
WM_set_prompt(h, wf, node_id, prompt_text) ==
    WM_set(h, wf, node_id, <<"text">>, [text |-> S(prompt_text)])

\* WorkflowManager._set_sampler
WM_set_sampler(h, wf, node_id, sampler) ==
    WM_set(h, wf, node_id,
           <<"steps", "cfg", "sampler_name", "scheduler", "seed">>,
           [steps |-> I(sampler.steps), cfg |-> F(sampler.cfg),
            sampler_name |-> S(sampler.sampler_name),
            scheduler |-> S(sampler.scheduler), seed |-> I(sampler.seed)])

\* WorkflowManager._set_lora
WM_set_lora(h, wf, node_id, lo) ==
    WM_set(h, wf, node_id,
           <<"lora_name", "strength_model", "strength_clip">>,
           [lora_name |-> S(lo.name), strength_model |-> F(lo.model_strength),
            strength_clip |-> F(lo.clip_strength)])

\* WorkflowManager.apply_params: an exception ends the call
WM_apply_params(h, wf, params) ==
    LET r1 == WM_set_prompt(h, wf, node_mapping.positive_prompt, params.positive_prompt)
        r2 == WM_set_prompt(r1.h, wf, node_mapping.negative_prompt, params.negative_prompt)
        r3 == WM_set_sampler(r2.h, wf, node_mapping.ksampler, params.sampler)
        r4 == WM_set_lora(r3.h, wf, node_mapping.lora, params.lora)
    IN  IF r1.err THEN r1 ELSE IF r2.err THEN r2 ELSE IF r3.err THEN r3 ELSE r4

\* WorkflowManager.set_filename_prefix
WM_set_filename_prefix(h, wf, prefix) ==
    WM_set(h, wf, node_mapping.save_image,
           <<"filename_prefix">>, [filename_prefix |-> S(prefix)])

\* WorkflowManager.create_configured_workflow
WM_create_configured_workflow(h, base, n0, params) ==
    LET c == get_base_workflow(h, base, n0)
        r == WM_apply_params(c.h, c.addr, params)
    IN  [h |-> r.h, err |-> r.err, addr |-> c.addr, next |-> c.next]

\* a validation that only checks that the workflow has nodes
validate_workflow_nonempty(h, wf) == DOMAIN h[wf] # {}

\* WorkflowManager.validate_workflow
validate_workflow(h, wf) ==
    \A node_id \in {node_mapping.positive_prompt, node_mapping.negative_prompt,
                     node_mapping.ksampler, node_mapping.lora,
                     node_mapping.save_image} :
        node_id \in DOMAIN h[wf]

(***************************************************************************)
(* expression_preset_batch EPBWorkflowManager.  cfg is the manager's       *)
(* configuration: input_image_node_id, expression_node, and the optional   *)
(* save_image_node_id, seed_node_id, sampler_node_id ("" stands for None). *)
(***************************************************************************)
\* EPBWorkflowManager.get_node_info: the node dict's slot, or PyNone
get_node_info(h, wf, node_id) ==
    IF node_id \notin DOMAIN h[wf] THEN PyNone
    ELSE IF ~IsRef(h[wf][node_id]) THEN PyNone
    ELSE h[wf][node_id]

\* the body shared by set_input_image_filename, apply_expression, set_seed,
\* set_filename_prefix and apply_sampler_params._set: resolve the inputs
\* dict, skip a link, else inputs[key] = value
EPB_inputs(h, wf, node_id) ==
    LET node == get_node_info(h, wf, node_id) IN
    IF node = PyNone THEN PyNone
    ELSE IF "inputs" \notin DOMAIN h[node.a] THEN PyNone   \* node.get("inputs")
    ELSE IF ~IsRef(h[node.a]["inputs"]) THEN PyNone        \* not a dict
    ELSE h[node.a]["inputs"]

\* apply_sampler_params._set (and the same lines of the other setters)
EPB_set(h, ia, key, value) ==
    IF key \in DOMAIN h[ia] /\ IsLink(h[ia][key]) THEN h
    ELSE [h EXCEPT ![ia] = DictSet(@, key, value)]

EPB_bind(h, wf, node_id, key, value) ==
    LET inputs == EPB_inputs(h, wf, node_id) IN
    IF inputs = PyNone THEN h ELSE EPB_set(h, inputs.a, key, value)

\* EPBWorkflowManager.set_input_image_filename
set_input_image_filename(cfg, h, wf, filename) ==
    EPB_bind(h, wf, cfg.input_image_node_id, "image", S(filename))

\* EPBWorkflowManager.apply_expression
apply_expression(cfg, h, wf, expression) ==
    EPB_bind(h, wf, cfg.expression_node, "expression", S(expression))

\* EPBWorkflowManager.set_seed
set_seed(cfg, h, wf, seed) ==
    IF cfg.seed_node_id = "" THEN h
    ELSE EPB_bind(h, wf, cfg.seed_node_id, "seed", I(seed))

\* EPBWorkflowManager.set_filename_prefix
EPB_set_filename_prefix(cfg, h, wf, prefix) ==
    IF cfg.save_image_node_id = "" THEN h
    ELSE EPB_bind(h, wf, cfg.save_image_node_id, "filename_prefix", S(prefix))

\* EPBWorkflowManager.apply_sampler_params
apply_sampler_params(cfg, h, wf, sp) ==
    IF cfg.sampler_node_id = "" THEN h
    ELSE LET inputs == EPB_inputs(h, wf, cfg.sampler_node_id) IN
         IF inputs = PyNone THEN h
         ELSE LET h1 == EPB_set(h, inputs.a, "steps", I(sp.steps))
                  h2 == EPB_set(h1, inputs.a, "cfg", F(sp.cfg))
                  h3 == EPB_set(h2, inputs.a, "denoise", F(sp.denoise))
                  h4 == EPB_set(h3, inputs.a, "sampler_name", S(sp.sampler_name))
              IN  EPB_set(h4, inputs.a, "scheduler", S(sp.scheduler))

\* EPBWorkflowManager.create_workflow; params.sampler.steps = 0 stands for
\* params.sampler is None
create_workflow(cfg, h, base, n0, params, input_image_filename) ==
    LET c == get_base_workflow(h, base, n0)
        h1 == set_input_image_filename(cfg, c.h, c.addr, input_image_filename)
        h2 == apply_expression(cfg, h1, c.addr, params.expression)
        h3 == IF cfg.seed_node_id # "" THEN set_seed(cfg, h2, c.addr, params.seed)
              ELSE h2
        h4 == IF cfg.save_image_node_id # ""
              THEN EPB_set_filename_prefix(cfg, h3, c.addr, params.filename_prefix)
              ELSE h3
        h5 == IF cfg.sampler_node_id # "" /\ params.sampler.steps # 0
              THEN apply_sampler_params(cfg, h4, c.addr, params.sampler)
              ELSE h4
    IN  [h |-> h5, err |-> FALSE, addr |-> c.addr, next |-> c.next]

\* EPBWorkflowManager.validate
validate(cfg, h, wf) ==
    /\ get_node_info(h, wf, cfg.input_image_node_id) # PyNone
    /\ get_node_info(h, wf, cfg.expression_node) # PyNone
    /\ cfg.save_image_node_id # "" =>
           get_node_info(h, wf, cfg.save_image_node_id) # PyNone
    /\ cfg.seed_node_id # "" => get_node_info(h, wf, cfg.seed_node_id) # PyNone

(***************************************************************************)
(* The graphs a manager is constructed on: the nodes its configuration     *)
(* names, with scalar inputs, except for the targeted inputs of a LinkSet   *)
(* that are wired to another node, or for one node that is absent, is not  *)
(* a dict, has no "inputs" or has an "inputs" that is not a mapping (with  *)
(* or without a linked seed).                                              *)
(***************************************************************************)
MaxWorkflows == 2       \* workflows the caller holds at once

WMNodes == <<"2", "3", "4", "18", "7">>
EPBNodes == <<"10", "123", "4", "7">>

DefaultInputs(node_id) ==
    CASE node_id \in {"2", "3"} -> [text |-> S("base")]
      [] node_id = "4" ->
            [steps |-> I(10), cfg |-> F(5), denoise |-> F(1),
             sampler_name |-> S("euler"), scheduler |-> S("normal"),
             seed |-> I(0), model |-> L("18", 0)]
      [] node_id = "18" ->
            [lora_name |-> S("base.safetensors"), strength_model |-> F(1),
             strength_clip |-> F(1), model |-> L("1", 0)]
      [] node_id = "7" -> [filename_prefix |-> S("ComfyUI"), images |-> L("8", 0)]
      [] node_id = "10" -> [image |-> S("base.png")]
      [] node_id = "123" -> [expression |-> S("neutral")]

\* the sets of targeted inputs that a graph file wires to another node: no
\* input, one input, or two inputs of different nodes
LinkSets(kind) ==
    LET c == IF kind = "WM"
             THEN {<<"4", "seed">>, <<"2", "text">>, <<"18", "strength_model">>,
                   <<"7", "filename_prefix">>}
             ELSE {<<"4", "seed">>, <<"10", "image">>, <<"123", "expression">>,
                   <<"4", "cfg">>, <<"7", "filename_prefix">>}
    IN  {{}} \cup {{x} : x \in c} \cup {{<<"4", "seed">>, <<"7", "filename_prefix">>}}

BrokenShapes == {"absent", "nondict", "noinputs", "badinputs"}

Index(seq, x) == CHOOSE i \in 1..Len(seq) : seq[i] = x

\* the heap of a graph file: workflow dict at 1, node i at 2i, inputs at 2i+1
BuildGraph(nodes, broken, links) ==
    LET shape(n) == IF broken[1] = n THEN broken[2] ELSE "ok"
        present == {n \in Range(nodes) : shape(n) # "absent"}
        dicts == {n \in present : shape(n) # "nondict"}
        oks == {n \in present : shape(n) = "ok"}
        top == [n \in present |->
                   IF shape(n) = "nondict" THEN S("not a node")
                   ELSE R(2 * Index(nodes, n))]
        node(n) == IF shape(n) = "noinputs" THEN [class_type |-> S("Node")]
                   ELSE IF shape(n) = "badinputs"
                        THEN [class_type |-> S("Node"), inputs |-> PyNone]
                        ELSE [class_type |-> S("Node"),
                              inputs |-> R(2 * Index(nodes, n) + 1)]
        inputs(n) == [k \in DOMAIN DefaultInputs(n) |->
                         IF <<n, k>> \in links THEN L("99", 0)
                         ELSE DefaultInputs(n)[k]]
        addrs == {1} \cup {2 * Index(nodes, n) : n \in dicts}
                     \cup {2 * Index(nodes, n) + 1 : n \in oks}
    IN  [a \in addrs |->
            IF a = 1 THEN top
            ELSE IF a % 2 = 0 THEN node(nodes[a \div 2])
            ELSE inputs(nodes[a \div 2])]

NoCfg == [input_image_node_id |-> "", expression_node |-> "",
          save_image_node_id |-> "", seed_node_id |-> "", sampler_node_id |-> ""]

EPBConfigs ==
    {[input_image_node_id |-> "10", expression_node |-> "123",
      save_image_node_id |-> sv, seed_node_id |-> sd, sampler_node_id |-> sp] :
        <<sv, sd, sp>> \in {<<"", "", "">>, <<"7", "4", "4">>, <<"", "", "4">>}}

Managers ==
    {[kind |-> "WM", base |-> 1, cfg |-> NoCfg]}
    \cup {[kind |-> "EPB", base |-> 1, cfg |-> c] : c \in EPBConfigs}

ManagerNodes(m) == IF m.kind = "WM" THEN WMNodes ELSE EPBNodes

\* GenerationParams of core_models (image_explorer)
WMParams ==
    {[positive_prompt |-> "1girl, " \o v, negative_prompt |-> "blurry",
      sampler |-> [steps |-> 20, cfg |-> 7, sampler_name |-> "dpmpp_2m",
                   scheduler |-> "karras", seed |-> sd],
      lora |-> [name |-> "x.safetensors", model_strength |-> 0,
                clip_strength |-> 0]] :
        <<v, sd>> \in {<<"smile", 111>>, <<"sad", 222>>}}

\* GenerationParams of expression_preset_batch (steps = 0: sampler is None)
EPBSamplers ==
    {[steps |-> 0, cfg |-> 0, denoise |-> 0, sampler_name |-> "", scheduler |-> ""],
     [steps |-> 30, cfg |-> 8, denoise |-> 1, sampler_name |-> "dpmpp_2m",
      scheduler |-> "karras"]}
EPBParams ==
    {[expression |-> "smile", seed |-> 111, filename_prefix |-> "a/smile/r1/img",
      sampler |-> sp] : sp \in EPBSamplers}

InjIdle ==
    /\ heap = <<>>
    /\ nextAddr = 1
    /\ mgr = [kind |-> "none", base |-> 0, cfg |-> NoCfg]
    /\ loaded = <<>>
    /\ wfs = <<>>
    /\ injErr = FALSE

\* __init__ / __post_init__: the graph file is loaded into base_workflow
InjInit ==
    /\ mgr \in Managers
    /\ \/ \E links \in LinkSets(mgr.kind) :
             heap = BuildGraph(ManagerNodes(mgr), <<"", "ok">>, links)
       \/ \E broken \in Range(ManagerNodes(mgr)) \X BrokenShapes,
             links \in {{}, {<<"4", "seed">>}} :
             heap = BuildGraph(ManagerNodes(mgr), broken, links)
    /\ nextAddr = 2 * Len(ManagerNodes(mgr)) + 2
    /\ loaded = Graph(heap, mgr.base)
    /\ wfs = <<>>
    /\ injErr = FALSE

\* the caller takes a copy of the base workflow
A_get_base_workflow ==
    /\ Len(wfs) < MaxWorkflows
    /\ LET c == get_base_workflow(heap, mgr.base, nextAddr) IN
          /\ heap' = c.h
          /\ nextAddr' = c.next
          /\ wfs' = Append(wfs, c.addr)
    /\ injErr' = FALSE
    /\ UNCHANGED <<mgr, loaded>>

\* WorkflowManager.create_configured_workflow(params); when it raises the
\* caller gets no workflow and the copy is garbage
A_create_configured_workflow(params) ==
    /\ mgr.kind = "WM"
    /\ Len(wfs) < MaxWorkflows
    /\ LET c == WM_create_configured_workflow(heap, mgr.base, nextAddr, params) IN
          IF c.err
          THEN /\ injErr' = TRUE
               /\ UNCHANGED <<heap, nextAddr, wfs>>
          ELSE /\ heap' = c.h
               /\ nextAddr' = c.next
               /\ wfs' = Append(wfs, c.addr)
               /\ injErr' = FALSE
    /\ UNCHANGED <<mgr, loaded>>

\* WorkflowManager.apply_params(workflow, params) on a workflow of the caller
A_apply_params(i, params) ==
    /\ mgr.kind = "WM"
    /\ i \in 1..Len(wfs)
    /\ LET r == WM_apply_params(heap, wfs[i], params) IN
          /\ heap' = r.h
          /\ injErr' = r.err
    /\ UNCHANGED <<nextAddr, mgr, loaded, wfs>>

\* WorkflowManager.set_filename_prefix(workflow, prefix)
A_WM_set_filename_prefix(i, prefix) ==
    /\ mgr.kind = "WM"
    /\ i \in 1..Len(wfs)
    /\ LET r == WM_set_filename_prefix(heap, wfs[i], prefix) IN
          /\ heap' = r.h
          /\ injErr' = r.err
    /\ UNCHANGED <<nextAddr, mgr, loaded, wfs>>

\* EPBWorkflowManager.create_workflow(params, input_image_filename=...)
A_create_workflow(params, filename) ==
    /\ mgr.kind = "EPB"
    /\ Len(wfs) < MaxWorkflows
    /\ LET c == create_workflow(mgr.cfg, heap, mgr.base, nextAddr, params, filename) IN
          /\ heap' = c.h
          /\ nextAddr' = c.next
          /\ wfs' = Append(wfs, c.addr)
    /\ injErr' = FALSE
    /\ UNCHANGED <<mgr, loaded>>

\* EPBWorkflowManager.set_filename_prefix(workflow, prefix)
A_EPB_set_filename_prefix(i, prefix) ==
    /\ mgr.kind = "EPB"
    /\ i \in 1..Len(wfs)
    /\ heap' = EPB_set_filename_prefix(mgr.cfg, heap, wfs[i], prefix)
    /\ injErr' = FALSE
    /\ UNCHANGED <<nextAddr, mgr, loaded, wfs>>

(***************************************************************************)
(* An orchestrator invocation (one process): prog is the program that      *)
(* runs (explorer: main.py, epb: scripts/expression_preset_batch.py), pc   *)
(* its position, exitCode the process exit code (-1 while it runs),        *)
(* submitted the workflows handed to execute_and_wait, metaFiles the       *)
(* metadata files written, usedAtStart / fileAtStart / sweptAtStart what   *)
(* the invocation found when it started, raised the exception that ended   *)
(* it, if one did, and lastSeed the seed input of the KSampler node of the *)
(* workflow submitted last (-1 before the first submission).               *)
(***************************************************************************)
NoRun ==
    [prog |-> "none", pc |-> "idle", exitCode |-> -1, health |-> "unknown",
     validated |-> FALSE, target |-> "", ci |-> 0, ri |-> 0,
     completed_images |-> 0, failed_images |-> 0, submitted |-> <<>>,
     metaFiles |-> {}, lastResp |-> "none", usedAtStart |-> {},
     fileAtStart |-> FileOf("absent", "missing", <<>>), sweptAtStart |-> 0,
     raised |-> "", lastSeed |-> -1]

NoHist == [inv |-> 0, swept |-> <<>>]

RunIdle ==
    /\ run = NoRun
    /\ hist = NoHist

\* nothing of the generator, the batch loop, the client, a tracker's
\* caller or the preset node is in use
AuxIdle ==
    /\ gen = <<>>
    /\ batch = <<>>
    /\ cl = <<>>
    /\ qry = <<>>
    /\ ep = <<>>

StateInit ==
    /\ file \in InitFiles
    /\ tr = [t \in 1..2 |-> NoTracker]
    /\ lastOp = Op("none", "")
    /\ InjIdle
    /\ RunIdle
    /\ AuxIdle

StateNext ==
    \/ \E t \in 1..2 : Construct(t) /\ UNCHANGED <<injVars, runVars, auxVars>>
    \/ Discard(2) /\ UNCHANGED <<injVars, runVars, auxVars>>
    \/ \E n \in AxisNames : mark_as_used(1, n) /\ UNCHANGED <<injVars, runVars, auxVars>>
    \/ \E n \in AxisNames : remove_axis(1, n) /\ UNCHANGED <<injVars, runVars, auxVars>>
    \/ reset(1) /\ UNCHANGED <<injVars, runVars, auxVars>>

SpecState == StateInit /\ [][StateNext]_vars

StateIdle ==
    /\ file = FileOf("absent", "missing", <<>>)
    /\ tr = [t \in 1..2 |-> NoTracker]
    /\ lastOp = Op("none", "")

(***************************************************************************)
(* Two StateManager objects on one state file, their caller and another    *)
(* writer of the file; the caller queries the first.  qry records the caller's last call: the tracker t, *)
(* the method op and its argument arg, the used set before the call        *)
(* (before), what the call returned (result), and ret, the set object the  *)
(* caller holds from its last get_used_axes: obj tells whether it is a     *)
(* copy or the tracker's own set, of tracker ret.t.                        *)
(***************************************************************************)
\* the names callers pass: a declared axis and an undeclared name
CallerNames == {get_axis_names[1], "x"}

\* the lists of declared axis names callers pass to the queries (a
\* template declares at least one axis)
DeclaredLists == {SubSeq(get_axis_names, 1, k) : k \in 1..Len(get_axis_names)}

\* what another writer leaves in the file
ExternalFiles ==
    {FileOf("absent", "missing", <<>>), FileOf("badjson", "missing", <<>>)}
       \cup {FileOf("object", "list", Sorted(U)) : U \in SUBSET CallerNames}

NoRet == [obj |-> "none", t |-> 0, value |-> {}]

Called(t, op, arg, before, result, ret) ==
    [t |-> t, op |-> op, arg |-> arg, before |-> before, result |-> result,
     ret |-> ret]

\* a get_used_axes that hands out the tracker's own set
get_used_axes_alias(t, used) == [obj |-> "self", t |-> t, value |-> used]

\* StateManager.get_used_axes: self._used_axes.copy()
get_used_axes(t, used) == [obj |-> "copy", t |-> t, value |-> used]

\* StateManager.is_used
is_used(used, axis_name) == axis_name \in used

\* StateManager.is_all_used
is_all_used(used, all_axis_names) ==
    Len(get_remaining_axes(used, all_axis_names)) = 0

\* used / total * 100 as an exact fraction
Percentage(used, total) ==
    IF total > 0 THEN [num |-> used * 100, den |-> total]
    ELSE [num |-> 0, den |-> 1]

\* StateManager.get_progress
get_progress(used, all_axis_names) ==
    [used |-> Cardinality(used),
     total |-> Len(all_axis_names),
     percentage |-> Percentage(Cardinality(used), Len(all_axis_names)),
     remaining |-> get_remaining_axes(used, all_axis_names),
     used_axes |-> Sorted(used)]

TrackersInit ==
    /\ file \in ExternalFiles
    /\ tr = [t \in 1..2 |-> NoTracker]
    /\ lastOp = Op("none", "")
    /\ qry = Called(0, "none", "", {}, "", NoRet)
    /\ InjIdle /\ RunIdle
    /\ gen = <<>> /\ batch = <<>> /\ cl = <<>> /\ ep = <<>>

\* the caller constructs tracker t
call_init(t) ==
    /\ tr[t].state = "none"
    /\ tr' = [tr EXCEPT ![t] = StateManager_load(file)]
    /\ qry' = Called(t, "__init__", "", {}, "", qry.ret)
    /\ UNCHANGED <<file, lastOp>>

\* another writer rewrites or deletes the file
external_edit(f) ==
    /\ f # file
    /\ file' = f
    /\ UNCHANGED <<tr, lastOp, qry>>

call_mark_as_used(t, axis_name) ==
    /\ mark_as_used(t, axis_name)
    /\ qry' = Called(t, "mark_as_used", axis_name, tr[t].used, "", qry.ret)

call_remove_axis(t, axis_name) ==
    /\ remove_axis(t, axis_name)
    /\ qry' = Called(t, "remove_axis", axis_name, tr[t].used, "", qry.ret)

call_reset(t) ==
    /\ reset(t)
    /\ qry' = Called(t, "reset", "", tr[t].used, "", qry.ret)

call_get_used_axes(t) ==
    /\ tr[t].state = "ok"
    /\ qry' = Called(t, "get_used_axes", "", tr[t].used, "",
                     get_used_axes(t, tr[t].used))
    /\ UNCHANGED <<file, tr, lastOp>>

\* is_used, get_remaining_axes, is_all_used, get_progress
call_query(t, op, axis_name, all_axis_names) ==
    /\ tr[t].state = "ok"
    /\ qry' = Called(t, op, IF op = "is_used" THEN axis_name ELSE all_axis_names,
                     tr[t].used,
                     CASE op = "is_used" -> is_used(tr[t].used, axis_name)
                       [] op = "get_remaining_axes" ->
                             get_remaining_axes(tr[t].used, all_axis_names)
                       [] op = "is_all_used" ->
                             is_all_used(tr[t].used, all_axis_names)
                       [] op = "get_progress" ->
                             get_progress(tr[t].used, all_axis_names),
                     qry.ret)
    /\ UNCHANGED <<file, tr, lastOp>>

\* the caller adds a name to the set it got from get_used_axes; a set that
\* is the tracker's own object changes the tracker with it
caller_adds(axis_name) ==
    /\ qry.ret.obj # "none"
    /\ axis_name \notin qry.ret.value
    /\ qry' = [qry EXCEPT !.ret.value = @ \cup {axis_name}]
    /\ tr' = IF qry.ret.obj = "self" /\ tr[qry.ret.t].state = "ok"
             THEN [tr EXCEPT ![qry.ret.t].used = @ \cup {axis_name}]
             ELSE tr
    /\ UNCHANGED <<file, lastOp>>

TrackersNext ==
    \/ \E t \in 1..2 : call_init(t) /\ UNCHANGED <<injVars, runVars, gen, batch, cl, ep>>
    \/ \E f \in ExternalFiles : external_edit(f) /\ UNCHANGED <<injVars, runVars, gen, batch, cl, ep>>
    \/ \E t \in 1..2, n \in CallerNames :
          call_mark_as_used(t, n) /\ UNCHANGED <<injVars, runVars, gen, batch, cl, ep>>
    \/ \E t \in 1..2, n \in CallerNames :
          call_remove_axis(t, n) /\ UNCHANGED <<injVars, runVars, gen, batch, cl, ep>>
    \/ \E t \in 1..2 : call_reset(t) /\ UNCHANGED <<injVars, runVars, gen, batch, cl, ep>>
    \/ call_get_used_axes(1) /\ UNCHANGED <<injVars, runVars, gen, batch, cl, ep>>
    \/ \E n \in CallerNames, a \in DeclaredLists,
          op \in {"is_used", "get_remaining_axes", "is_all_used", "get_progress"} :
          call_query(1, op, n, a) /\ UNCHANGED <<injVars, runVars, gen, batch, cl, ep>>
    \/ \E n \in CallerNames : caller_adds(n) /\ UNCHANGED <<injVars, runVars, gen, batch, cl, ep>>

SpecTrackers == TrackersInit /\ [][TrackersNext]_vars

InjectorInit == InjInit /\ StateIdle /\ RunIdle /\ AuxIdle

InjectorNext ==
    \/ A_get_base_workflow /\ UNCHANGED <<stateVars, runVars, auxVars>>
    \/ \E p \in WMParams : A_create_configured_workflow(p) /\ UNCHANGED <<stateVars, runVars, auxVars>>
    \/ \E i \in 1..MaxWorkflows, p \in WMParams :
          A_apply_params(i, p) /\ UNCHANGED <<stateVars, runVars, auxVars>>
    \/ \E i \in 1..MaxWorkflows :
          A_WM_set_filename_prefix(i, "0001_ab12cd/img") /\ UNCHANGED <<stateVars, runVars, auxVars>>
    \/ \E p \in EPBParams :
          A_create_workflow(p, "a.png") /\ UNCHANGED <<stateVars, runVars, auxVars>>
    \/ \E i \in 1..MaxWorkflows :
          A_EPB_set_filename_prefix(i, "b/wink/r2/img") /\ UNCHANGED <<stateVars, runVars, auxVars>>

SpecInjector == InjectorInit /\ [][InjectorNext]_vars

(***************************************************************************)
(* The sweep orchestrator (main.py) and the batch script's start-up        *)
(* (scripts/expression_preset_batch.py).                                   *)
(***************************************************************************)
Repeats == 2            \* ExecutionConfig.repeats (validated > 0)

\* invocations in a behaviour: enough to sweep every axis and start once more
MaxInvocations == NumAxes + 1

\* PromptAxis.choices of each axis (get_all_values)
AxisChoices ==
    [hair |-> <<"long hair", "short hair">>, color |-> <<"red">>,
     pose |-> <<"standing", "sitting">>, style |-> <<"anime">>]

\* sampler_choices / lora_choices of the configuration
sampler_choices ==
    [steps |-> <<20>>, cfg |-> <<7>>, sampler_name |-> <<"euler">>,
     scheduler |-> <<"normal">>]
lora_choices ==
    [names |-> <<"x.safetensors">>, model_strength |-> <<1>>,
     clip_strength |-> <<1>>]

\* itertools.product of two lists, in its order
Product2(a, b) ==
    [k \in 1..(Len(a) * Len(b)) |->
        <<a[((k - 1) \div Len(b)) + 1], b[((k - 1) % Len(b)) + 1]>>]

\* PromptBuilder.get_axis_choices (randomize_non_target off): every choice
\* of the target axis, the first choice of any other axis
get_axis_choices(axis_name, is_target) ==
    IF is_target THEN AxisChoices[axis_name]
    ELSE <<AxisChoices[axis_name][1]>>

\* PromptBuilder.create_axis_combinations: the product over the declared
\* axes in declared order; only the target axis has more than one choice
create_axis_combinations(target_axis_name) ==
    LET choices == get_axis_choices(target_axis_name, TRUE) IN
    [k \in 1..Len(choices) |->
        [n \in Range(get_axis_names) |->
            IF n = target_axis_name THEN choices[k]
            ELSE get_axis_choices(n, FALSE)[1]]]

\* PromptBuilder.build_prompts: the fixed part, then each axis value
RECURSIVE JoinValues(_, _)
JoinValues(names, axis_values) ==
    IF names = <<>> THEN ""
    ELSE ", " \o axis_values[Head(names)] \o JoinValues(Tail(names), axis_values)

build_positive_prompt(axis_values) ==
    "1girl" \o JoinValues(get_axis_names, axis_values)

\* ParameterCombinationGenerator.generate_combinations (seed = 0)
generate_combinations(target_axis_name) ==
    LET ac == create_axis_combinations(target_axis_name)
        sc == Product2(Product2(Product2(sampler_choices.steps, sampler_choices.cfg),
                                sampler_choices.sampler_name),
                       sampler_choices.scheduler)
        lc == Product2(Product2(lora_choices.names, lora_choices.model_strength),
                       lora_choices.clip_strength)
        all == Product2(Product2(ac, sc), lc)
    IN  [k \in 1..Len(all) |->
            LET axis_values == all[k][1][1]
                sp == all[k][1][2]
                lo == all[k][2]
            IN  [positive_prompt |-> build_positive_prompt(axis_values),
                 negative_prompt |-> "blurry",
                 sampler |-> [steps |-> sp[1][1][1], cfg |-> sp[1][1][2],
                              sampler_name |-> sp[1][2], scheduler |-> sp[2],
                              seed |-> 0],
                 lora |-> [name |-> lo[1][1], model_strength |-> lo[1][2],
                           clip_strength |-> lo[2]],
                 target_axis_name |-> target_axis_name]]

\* ParameterCombinationGenerator.count_combinations
count_combinations(target_axis_name) ==
    Len(create_axis_combinations(target_axis_name))
      * (Len(sampler_choices.steps) * Len(sampler_choices.cfg)
           * Len(sampler_choices.sampler_name) * Len(sampler_choices.scheduler))
      * (Len(lora_choices.names) * Len(lora_choices.model_strength)
           * Len(lora_choices.clip_strength))

\* GenerationParams.to_dict: the keys of params.json
to_dict_keys ==
    {"axis", "positive", "negative", "steps", "cfg", "sampler", "scheduler",
     "seed", "lora", "lora_model_strength", "lora_clip_strength", "prompt_values"}

\* generate_seed()
Seeds == {111, 222}
\* what execute_and_wait returns: success, or a failed queue_prompt /
\* get_history (remote error, request timeout)
Outcomes == {"success", "queue_failed", "history_failed"}

\* return code: the process ends
Exit(r, code) == [r EXCEPT !.pc = "done", !.exitCode = code]

\* an exception reaches the except clauses of run() / main(): return 1
Raise(r, exception) == [Exit(r, 1) EXCEPT !.raised = exception]

\* str.lower() of the answers the prompt is given
Lower(response) == IF response = "Y" THEN "y" ELSE response

\* the state files an invocation can find: none, a corrupt one, or one a
\* StateManager wrote (declared axes, or "x", an axis since removed from
\* the template)
RunInitFiles ==
    {FileOf("absent", "missing", <<>>), FileOf("badjson", "missing", <<>>),
     FileOf("nonobject", "missing", <<>>)}
    \cup {StateManager_save(U) :
            U \in {V \in SUBSET (Range(get_axis_names) \cup {"x"}) :
                      Cardinality(V) <= MaxListLen}}

\* the workflow file: complete, without the KSampler node, or with a
\* KSampler node whose "inputs" is null
RunGraphs == {<<"", "ok">>, <<"4", "absent">>, <<"4", "badinputs">>}

RunInit ==
    /\ file \in RunInitFiles
    /\ tr = [t \in 1..2 |-> NoTracker]
    /\ lastOp = Op("none", "")
    /\ mgr = [kind |-> "WM", base |-> 1, cfg |-> NoCfg]
    /\ \E broken \in RunGraphs : heap = BuildGraph(WMNodes, broken, {})
    /\ nextAddr = 2 * Len(WMNodes) + 2
    /\ loaded = Graph(heap, mgr.base)
    /\ wfs = <<>>
    /\ injErr = FALSE
    /\ RunIdle
    /\ AuxIdle

\* the record of a process that starts now
StartOf(prog, sm) ==
    [NoRun EXCEPT !.prog = prog, !.usedAtStart = sm.used,
                  !.fileAtStart = file, !.sweptAtStart = Len(hist.swept)]

\* main(): ImageGenerationRunner is constructed (the StateManager loads the
\* state file); an exception there, or --progress, ends the process
main_start(progress) ==
    /\ run.pc \in {"idle", "done"}
    /\ hist.inv < MaxInvocations
    /\ hist' = [hist EXCEPT !.inv = @ + 1]
    /\ LET sm == StateManager_load(file)
           r0 == StartOf("explorer", sm)
       IN  /\ tr' = [tr EXCEPT ![1] = sm]
           /\ run' = IF sm.state = "raised" THEN Raise(r0, "Exception")
                     ELSE IF progress THEN Exit(r0, 0)
                     ELSE [r0 EXCEPT !.pc = "health"]
    /\ lastOp' = Op("none", "")
    /\ UNCHANGED file

\* run(): check_comfyui_connection; alive is what client.is_alive() returns
check_comfyui_connection(alive) ==
    /\ run.prog = "explorer"
    /\ run.pc = "health"
    /\ run' = IF alive THEN [run EXCEPT !.health = "up", !.pc = "validate"]
              ELSE Exit([run EXCEPT !.health = "down"], 1)
    /\ UNCHANGED <<stateVars, hist>>

\* run(): validate_workflow(get_base_workflow())
run_validate_workflow ==
    /\ run.pc = "validate"
    /\ LET c == get_base_workflow(heap, mgr.base, nextAddr) IN
          run' = IF validate_workflow(c.h, c.addr)
                 THEN [run EXCEPT !.validated = TRUE, !.pc = "select"]
                 ELSE Exit([run EXCEPT !.validated = TRUE], 1)
    /\ UNCHANGED <<stateVars, hist>>

\* run(): select_target_axis (random.choice of the remaining axes) and
\* calculate_generation_count; no axis left: return 0
select_target_axis ==
    /\ run.pc = "select"
    /\ LET remaining == get_remaining_axes(tr[1].used, get_axis_names) IN
          IF remaining = <<>>
          THEN run' = Exit(run, 0)
          ELSE \E i \in 1..Len(remaining) :
                  run' = [run EXCEPT !.target = remaining[i], !.pc = "confirm"]
    /\ UNCHANGED <<stateVars, hist>>

\* a confirmation that marks the target before the sweep
confirm_and_mark(response) ==
    /\ run.pc = "confirm"
    /\ IF Lower(response) # "y"
       THEN /\ run' = Exit(run, 0)
            /\ UNCHANGED stateVars
       ELSE /\ run' = [run EXCEPT !.pc = "combo", !.ci = 1]
            /\ mark_as_used(1, run.target)
    /\ UNCHANGED hist

\* run(): the answer to the confirmation prompt; run_generation starts
confirm(response) ==
    /\ run.pc = "confirm"
    /\ run' = IF Lower(response) # "y" THEN Exit(run, 0)
              ELSE [run EXCEPT !.pc = "combo", !.ci = 1,
                               !.completed_images = 0, !.failed_images = 0]
    /\ UNCHANGED <<stateVars, hist>>

\* run_generation: the next combination of the generator; its params.json
\* is written (_save_metadata) before any of its repeats runs
save_metadata ==
    /\ run.pc = "combo"
    /\ run.ci <= Len(generate_combinations(run.target))
    /\ run' = [run EXCEPT
                 !.metaFiles = @ \cup {[combo |-> run.ci, keys |-> to_dict_keys,
                                         seed |-> generate_combinations(run.target)[run.ci].sampler.seed]},
                 !.ri = 0, !.pc = "repeat"]
    /\ UNCHANGED <<stateVars, hist>>

\* the record after one execute_and_wait of combination ci, repeat ri + 1
Submitted(r, params, outcome) ==
    [r EXCEPT
       !.submitted = Append(@, [combo |-> r.ci, repeat |-> r.ri + 1,
                                positive |-> params.positive_prompt]),
       !.lastResp = outcome,
       !.completed_images = IF outcome = "success" THEN @ + 1 ELSE @,
       !.failed_images = IF outcome = "success" THEN @ ELSE @ + 1]

\* the loop counters after a repeat
NextRepeat(r) ==
    IF r.ri + 1 = Repeats
    THEN [r EXCEPT !.ri = 0, !.ci = @ + 1, !.pc = "combo"]
    ELSE [r EXCEPT !.ri = @ + 1]

\* the "seed" input of the KSampler node of the workflow at wf
InjectedSeed(h, wf) ==
    h[h[h[wf][node_mapping.ksampler].a]["inputs"].a]["seed"].n

\* a repeat whose failure ends the sweep
execute_run_abort_on_failure(seed, outcome) ==
    /\ run.pc = "repeat"
    /\ LET params == [generate_combinations(run.target)[run.ci]
                         EXCEPT !.sampler.seed = seed]
       IN  run' = IF outcome = "success"
                  THEN NextRepeat(Submitted(run, params, outcome))
                  ELSE Exit(Submitted(run, params, outcome), 1)
    /\ UNCHANGED <<stateVars, hist>>

\* run_generation: one repeat: a seed, create_configured_workflow,
\* set_filename_prefix, execute_and_wait, the counters; an exception of the
\* injector propagates to run(), which returns 1
execute_run(seed, outcome) ==
    /\ run.pc = "repeat"
    /\ LET params == [generate_combinations(run.target)[run.ci]
                         EXCEPT !.sampler.seed = seed]
           c == WM_create_configured_workflow(heap, mgr.base, nextAddr, params)
           f == WM_set_filename_prefix(c.h, c.addr, "run_id/img")
       IN  run' = IF c.err \/ f.err THEN Raise(run, "TypeError")
                  ELSE [NextRepeat(Submitted(run, params, outcome))
                           EXCEPT !.lastSeed = InjectedSeed(f.h, c.addr)]
    /\ UNCHANGED <<stateVars, hist>>

\* run_generation: the generator is exhausted: mark_as_used(target_axis);
\* run() returns 0
finish_generation ==
    /\ run.pc = "combo"
    /\ run.ci > Len(generate_combinations(run.target))
    /\ mark_as_used(1, run.target)
    /\ run' = Exit(run, 0)
    /\ hist' = [hist EXCEPT !.swept = Append(@, run.target)]

\* run(): KeyboardInterrupt anywhere inside the try: return 1
KeyboardInterrupt ==
    /\ run.prog = "explorer"
    /\ run.pc \in {"health", "validate", "select", "confirm", "combo", "repeat"}
    /\ run' = Raise(run, "KeyboardInterrupt")
    /\ UNCHANGED <<stateVars, hist>>

\* expression_preset_batch main(): the images directory is checked and the
\* configuration loaded
epb_main_start(images_dir_ok) ==
    /\ run.pc \in {"idle", "done"}
    /\ hist.inv < MaxInvocations
    /\ hist' = [hist EXCEPT !.inv = @ + 1]
    /\ tr' = [tr EXCEPT ![1] = NoTracker]
    /\ run' = IF images_dir_ok
              THEN [StartOf("epb", NoTracker) EXCEPT !.pc = "health"]
              ELSE Exit(StartOf("epb", NoTracker), 2)
    /\ lastOp' = Op("none", "")
    /\ UNCHANGED file

\* expression_preset_batch main(): client.is_alive(), else return 3
epb_is_alive(alive) ==
    /\ run.prog = "epb"
    /\ run.pc = "health"
    /\ run' = IF alive THEN [run EXCEPT !.health = "up", !.pc = "construct"]
              ELSE Exit([run EXCEPT !.health = "down"], 3)
    /\ UNCHANGED <<stateVars, hist>>

\* expression_preset_batch main(): the arguments of EPBWorkflowManager(...)
\* are evaluated: cfg["save_image"]["nodes"] raises KeyError, because
\* load_save_image returns only node_id and filename_prefix_template; the
\* exception is not caught and the process exits with code 1 before any
\* upload or submission
epb_construct_manager ==
    /\ run.prog = "epb"
    /\ run.pc = "construct"
    /\ run' = Raise(run, "KeyError")
    /\ UNCHANGED <<stateVars, hist>>

RunNext ==
    \/ \E progress \in BOOLEAN : main_start(progress) /\ UNCHANGED <<injVars, auxVars>>
    \/ \E alive \in BOOLEAN : check_comfyui_connection(alive) /\ UNCHANGED <<injVars, auxVars>>
    \/ run_validate_workflow /\ UNCHANGED <<injVars, auxVars>>
    \/ select_target_axis /\ UNCHANGED <<injVars, auxVars>>
    \/ \E response \in {"y", "Y", "n", ""} : confirm(response) /\ UNCHANGED <<injVars, auxVars>>
    \/ save_metadata /\ UNCHANGED <<injVars, auxVars>>
    \/ \E seed \in Seeds, outcome \in Outcomes :
          execute_run(seed, outcome) /\ UNCHANGED <<injVars, auxVars>>
    \/ finish_generation /\ UNCHANGED <<injVars, auxVars>>
    \/ KeyboardInterrupt /\ UNCHANGED <<injVars, auxVars>>
    \/ \E ok \in BOOLEAN : epb_main_start(ok) /\ UNCHANGED <<injVars, auxVars>>
    \/ \E alive \in BOOLEAN : epb_is_alive(alive) /\ UNCHANGED <<injVars, auxVars>>
    \/ epb_construct_manager /\ UNCHANGED <<injVars, auxVars>>

SpecRun == RunInit /\ [][RunNext]_vars

(***************************************************************************)
(* The combination generator over any template: PromptBuilder and          *)
(* ParameterCombinationGenerator of prompt_builder.py, PromptAxis and      *)
(* PromptTemplate of models.py, as ConfigLoader hands them over (it checks *)
(* that the fields are present, not what the lists hold).                  *)
(***************************************************************************)
MaxChoices == 2         \* choices of one axis (the loader accepts none)

\* WeightedPrompt(text, weight); a plain string choice behaves as its text
WeightedPrompt(text, weight) == [text |-> text, weight |-> weight]
ChoiceValues == {WeightedPrompt("long", 1), WeightedPrompt("short", 0)}
ChoiceLists == UNION {[1..n -> ChoiceValues] : n \in 0..MaxChoices}

\* the axis names of a template, in declared order (nothing checks that
\* they are distinct)
AxisNameLists == {<<"hair">>, <<"hair", "color">>, <<"hair", "hair">>}

\* PromptAxis(name, choices)
PromptAxis(name, choices) == [name |-> name, choices |-> choices]

\* PromptTemplate.axes
Templates ==
    UNION {{[i \in 1..Len(ns) |-> PromptAxis(ns[i], cs[i])] :
               cs \in [1..Len(ns) -> ChoiceLists]} : ns \in AxisNameLists}

\* PromptAxis.get_all_values: the text of every choice
get_all_values(axis) == [i \in 1..Len(axis.choices) |-> axis.choices[i].text]

\* PromptTemplate.get_axis_by_name: the first axis of that name, or
\* ValueError
get_axis_by_name(axes, name) ==
    IF \E i \in 1..Len(axes) : axes[i].name = name
    THEN [raised |-> "none",
          axis |-> axes[CHOOSE i \in 1..Len(axes) :
                           /\ axes[i].name = name
                           /\ \A j \in 1..(i - 1) : axes[j].name # name]]
    ELSE [raised |-> "ValueError", axis |-> PromptAxis(name, <<>>)]

\* pick_from_choices: "" for an empty list; the choices are never tuples,
\* so the pick is random.choice, any element whatever its weight (draw is
\* the index random.choice lands on)
pick_from_choices(choices, draw) ==
    IF choices = <<>> THEN WeightedPrompt("", 1)
    ELSE choices[((draw - 1) % Len(choices)) + 1]

\* PromptBuilder.get_axis_choices that draws for a non-target axis even
\* when randomize_non_target is off
PB_get_axis_choices_always_drawn(axes, randomize_non_target, axis_name, is_target, draw) ==
    LET got == get_axis_by_name(axes, axis_name)
        axis == got.axis
    IN  IF got.raised # "none" THEN [raised |-> got.raised, value |-> <<>>]
        ELSE IF is_target THEN [raised |-> "none", value |-> get_all_values(axis)]
        ELSE [raised |-> "none",
              value |-> <<pick_from_choices(axis.choices, draw).text>>]

\* PromptBuilder.get_axis_choices
PB_get_axis_choices(axes, randomize_non_target, axis_name, is_target, draw) ==
    LET got == get_axis_by_name(axes, axis_name)
        axis == got.axis
    IN  IF got.raised # "none" THEN [raised |-> got.raised, value |-> <<>>]
        ELSE IF is_target THEN [raised |-> "none", value |-> get_all_values(axis)]
        ELSE IF randomize_non_target
             THEN [raised |-> "none",
                   value |-> <<pick_from_choices(axis.choices, draw).text>>]
        ELSE IF get_all_values(axis) = <<>>
             THEN [raised |-> "IndexError", value |-> <<>>]
        ELSE [raised |-> "none", value |-> <<get_all_values(axis)[1]>>]

\* itertools.product(*lists): the last list varies fastest
RECURSIVE Product(_)
Product(lists) ==
    IF lists = <<>> THEN << <<>> >>
    ELSE LET rest == Product(Tail(lists))
             head == Head(lists)
         IN  [k \in 1..(Len(head) * Len(rest)) |->
                 <<head[((k - 1) \div Len(rest)) + 1]>>
                    \o rest[((k - 1) % Len(rest)) + 1]]

\* dict(zip(keys, values)): <<key, value>> pairs in insertion order; a key
\* that comes again keeps its place and takes the later value
RECURSIVE DictZip(_, _)
DictZip(keys, values) ==
    IF keys = <<>> \/ values = <<>> THEN <<>>
    ELSE LET n == Len(keys)
             front == DictZip(SubSeq(keys, 1, n - 1), SubSeq(values, 1, n - 1))
         IN  IF n > Len(values) THEN DictZip(SubSeq(keys, 1, Len(values)), values)
             ELSE IF \E i \in 1..Len(front) : front[i][1] = keys[n]
             THEN [i \in 1..Len(front) |->
                      IF front[i][1] = keys[n] THEN <<keys[n], values[n]>>
                      ELSE front[i]]
             ELSE Append(front, <<keys[n], values[n]>>)

\* the draws PromptBuilder.create_axis_combinations can make: one per axis,
\* an index into the choices of the axis that get_axis_by_name finds
DrawsFor(axes) ==
    {d \in [1..Len(axes) -> 1..MaxChoices] :
        \A i \in 1..Len(axes) :
            d[i] = 1 \/ d[i] <= Len(get_axis_by_name(axes, axes[i].name).axis.choices)}

\* PromptBuilder.create_axis_combinations
PB_create_axis_combinations(axes, randomize_non_target, target_axis_name, draws) ==
    LET got == [i \in 1..Len(axes) |->
                   PB_get_axis_choices(axes, randomize_non_target, axes[i].name,
                                       axes[i].name = target_axis_name, draws[i])]
        axis_names == [i \in 1..Len(axes) |-> axes[i].name]
        choices_lists == [i \in 1..Len(axes) |-> got[i].value]
        combos == Product(choices_lists)
    IN  IF \E i \in 1..Len(axes) : got[i].raised # "none"
        THEN [raised |-> got[CHOOSE i \in 1..Len(axes) :
                                /\ got[i].raised # "none"
                                /\ \A j \in 1..(i - 1) : got[j].raised = "none"].raised,
              value |-> <<>>]
        ELSE [raised |-> "none",
              value |-> [k \in 1..Len(combos) |-> DictZip(axis_names, combos[k])]]

\* join_prompts: the non-blank parts, joined by ", " (no value of the
\* model has blanks around it, so strip() only tells the empty ones)
RECURSIVE join_prompts(_)
join_prompts(prompts) ==
    IF prompts = <<>> THEN ""
    ELSE LET rest == join_prompts(Tail(prompts)) IN
         IF Head(prompts) = "" THEN rest
         ELSE IF rest = "" THEN Head(prompts)
         ELSE Head(prompts) \o ", " \o rest

fixed_positive == <<"1girl">>
negative == <<"blurry">>

\* PromptBuilder.build_positive_prompt: the fixed part, then the values of
\* the dict in its order
PB_build_positive_prompt(axis_values) ==
    join_prompts(fixed_positive \o [i \in 1..Len(axis_values) |-> axis_values[i][2]])

\* PromptBuilder.build_negative_prompt
PB_build_negative_prompt == join_prompts(negative)

\* a LoRA file name: str.endswith looks at the suffix only
LoraName(stem, suffix) == [stem |-> stem, suffix |-> suffix]

\* config["sampler_choices"]: four lists (cfg in tenths)
SamplerChoiceSets ==
    {[steps |-> <<20>>, cfg |-> <<70>>, sampler_name |-> <<"euler">>,
      scheduler |-> <<"normal">>],
     [steps |-> <<20, 30>>, cfg |-> <<70>>, sampler_name |-> <<"euler">>,
      scheduler |-> <<"normal", "karras">>],
     [steps |-> <<20, 0>>, cfg |-> <<70>>, sampler_name |-> <<"euler">>,
      scheduler |-> <<"normal">>]}

\* config["lora_choices"]: three lists (strengths in tenths)
LoraChoiceSets ==
    {[names |-> <<LoraName("detail", ".safetensors")>>, model_strength |-> <<10>>,
      clip_strength |-> <<10>>],
     [names |-> <<LoraName("detail", ".safetensors"), LoraName("flat", ".safetensors")>>,
      model_strength |-> <<8, 10>>, clip_strength |-> <<10>>]}

\* SamplerConfig.__post_init__ and LoraConfig.__post_init__: ValueError
post_init_raises(steps, cfg, lora_name) ==
    steps <= 0 \/ cfg <= 0 \/ lora_name.suffix # ".safetensors"

\* the generator's loops, before any record is constructed: one entry per
\* (axis_values, sampler combo, lora combo), in the order of the loops
PCG_loops(axis_combinations, sc, lc) ==
    LET sampler_combos == Product(<<sc.steps, sc.cfg, sc.sampler_name, sc.scheduler>>)
        lora_combos == Product(<<lc.names, lc.model_strength, lc.clip_strength>>)
        ns == Len(sampler_combos)
        nl == Len(lora_combos)
    IN  [k \in 1..(Len(axis_combinations) * ns * nl) |->
            [axis_values |-> axis_combinations[((k - 1) \div (ns * nl)) + 1],
             s |-> sampler_combos[(((k - 1) \div nl) % ns) + 1],
             l |-> lora_combos[((k - 1) % nl) + 1]]]

\* GenerationParams(...) of one turn of the loops (seed = 0)
GenerationParams(e, target_axis_name) ==
    [positive_prompt |-> PB_build_positive_prompt(e.axis_values),
     negative_prompt |-> PB_build_negative_prompt,
     sampler |-> [steps |-> e.s[1], cfg |-> e.s[2], sampler_name |-> e.s[3],
                  scheduler |-> e.s[4], seed |-> 0],
     lora |-> [name |-> e.l[1], model_strength |-> e.l[2], clip_strength |-> e.l[3]],
     target_axis_name |-> target_axis_name,
     prompt_values |-> e.axis_values]

\* ParameterCombinationGenerator.generate_combinations, iterated to its
\* end: the records yielded, and the exception that ended it, if any
PCG_generate_combinations(axes, randomize_non_target, sc, lc, target_axis_name, draws) ==
    LET ac == PB_create_axis_combinations(axes, randomize_non_target,
                                          target_axis_name, draws)
        loops == PCG_loops(ac.value, sc, lc)
        bad == {k \in 1..Len(loops) :
                   post_init_raises(loops[k].s[1], loops[k].s[2], loops[k].l[1])}
        stop == IF bad = {} THEN Len(loops) + 1
                ELSE CHOOSE k \in bad : \A j \in bad : k <= j
    IN  IF ac.raised # "none" THEN [raised |-> ac.raised, items |-> <<>>]
        ELSE [raised |-> IF bad = {} THEN "none" ELSE "ValueError",
              items |-> [k \in 1..(stop - 1) |->
                            GenerationParams(loops[k], target_axis_name)]]

\* ParameterCombinationGenerator.count_combinations
PCG_count_combinations(axes, randomize_non_target, sc, lc, target_axis_name, draws) ==
    LET ac == PB_create_axis_combinations(axes, randomize_non_target,
                                          target_axis_name, draws)
        sampler_count == Len(sc.steps) * Len(sc.cfg) * Len(sc.sampler_name)
                           * Len(sc.scheduler)
        lora_count == Len(lc.names) * Len(lc.model_strength) * Len(lc.clip_strength)
    IN  IF ac.raised # "none" THEN [raised |-> ac.raised, value |-> 0]
        ELSE [raised |-> "none", value |-> Len(ac.value) * sampler_count * lora_count]

\* the names a caller can ask for: the declared ones and one that no
\* template declares
TargetNames == {"hair", "color", "ghost"}

NoResult == [raised |-> "unset", items |-> <<>>]
NoCount == [raised |-> "unset", value |-> 0]

GenInit ==
    /\ \E axes \in Templates, rnd \in BOOLEAN, target \in TargetNames,
          sc \in SamplerChoiceSets, lc \in LoraChoiceSets :
          gen = [axes |-> axes, randomize_non_target |-> rnd,
                 target_axis_name |-> target, sampler_choices |-> sc,
                 lora_choices |-> lc, first |-> NoResult, second |-> NoResult,
                 count |-> NoCount]
    /\ batch = <<>>
    /\ cl = <<>>
    /\ qry = <<>>
    /\ ep = <<>>
    /\ StateIdle
    /\ InjIdle
    /\ RunIdle

\* list(generator.generate_combinations(target)): a first enumeration
A_generate_combinations ==
    /\ gen.first.raised = "unset"
    /\ \E draws \in DrawsFor(gen.axes) :
          gen' = [gen EXCEPT !.first =
                     PCG_generate_combinations(gen.axes, gen.randomize_non_target,
                         gen.sampler_choices, gen.lora_choices,
                         gen.target_axis_name, draws)]

\* a second enumeration of the same generator and target
A_generate_combinations_again ==
    /\ gen.first.raised # "unset"
    /\ gen.second.raised = "unset"
    /\ \E draws \in DrawsFor(gen.axes) :
          gen' = [gen EXCEPT !.second =
                     PCG_generate_combinations(gen.axes, gen.randomize_non_target,
                         gen.sampler_choices, gen.lora_choices,
                         gen.target_axis_name, draws)]

\* generator.count_combinations(target)
A_count_combinations ==
    /\ gen.first.raised # "unset"
    /\ gen.count.raised = "unset"
    /\ \E draws \in DrawsFor(gen.axes) :
          gen' = [gen EXCEPT !.count =
                     PCG_count_combinations(gen.axes, gen.randomize_non_target,
                         gen.sampler_choices, gen.lora_choices,
                         gen.target_axis_name, draws)]

GenNext ==
    \/ A_generate_combinations /\ UNCHANGED <<stateVars, injVars, runVars, batch, cl, qry, ep>>
    \/ A_generate_combinations_again
          /\ UNCHANGED <<stateVars, injVars, runVars, batch, cl, qry, ep>>
    \/ A_count_combinations /\ UNCHANGED <<stateVars, injVars, runVars, batch, cl, qry, ep>>

SpecGen == GenInit /\ [][GenNext]_vars

(***************************************************************************)
(* main of scripts/expression_preset_batch.py, from the construction of    *)
(* the client on, with compute_seed, render_prefix, _fmt_float and         *)
(* utils.safe_filename.  A text is a sequence of one-character strings;    *)
(* a float is counted in thousandths.                                      *)
(***************************************************************************)
MaxImages == 2          \* image files found in images-dir
MaxRuns == 4            \* runs one invocation plans (images x expr x combos x repeats)

Unsafe == {"/", "\\", ":", "*", "?", "\"", "<", ">", "|"}

\* while "__" in safe: safe = safe.replace("__", "_")
RECURSIVE CollapseUnderscores(_)
CollapseUnderscores(t) ==
    IF Len(t) < 2 THEN t
    ELSE IF t[1] = "_" /\ t[2] = "_" THEN CollapseUnderscores(Tail(t))
    ELSE <<t[1]>> \o CollapseUnderscores(Tail(t))

\* str.lstrip(chars) and str.rstrip(chars)
RECURSIVE LStrip(_, _)
LStrip(t, chars) ==
    IF t # <<>> /\ t[1] \in chars THEN LStrip(Tail(t), chars) ELSE t

RECURSIVE RStrip(_, _)
RStrip(t, chars) ==
    IF t # <<>> /\ t[Len(t)] \in chars
    THEN RStrip(SubSeq(t, 1, Len(t) - 1), chars) ELSE t

\* utils.safe_filename(text) with max_length = 50
safe_filename(text) ==
    LET replaced == [i \in 1..Len(text) |->
                        IF text[i] \in Unsafe THEN "_" ELSE text[i]]
        stripped == RStrip(LStrip(CollapseUnderscores(replaced), {"_", " "}),
                           {"_", " "})
    IN  IF Len(stripped) > 50 THEN SubSeq(stripped, 1, 50) ELSE stripped

\* str(n) of an int
RECURSIVE Str(_)
Str(n) ==
    IF n < 0 THEN <<"-">> \o Str(0 - n)
    ELSE IF n < 10 THEN <<(<<"0", "1", "2", "3", "4", "5", "6", "7", "8", "9">>)[n + 1]>>
    ELSE Str(n \div 10) \o Str(n % 10)

\* _fmt_float(x, digits=3) of x = th / 1000, th >= 0:
\* f"{x:.3f}".rstrip("0").rstrip("."), "0" if nothing is left
_fmt_float(th) ==
    LET frac == th % 1000
        fixed == Str(th \div 1000) \o <<".">>
                    \o Str(frac \div 100) \o Str((frac \div 10) % 10) \o Str(frac % 10)
        s == RStrip(RStrip(fixed, {"0"}), {"."})
    IN  IF s = <<>> THEN <<"0">> ELSE s

\* a format string: literal text and replacement fields {name}
Lit(text) == [k |-> "lit", s |-> text]
Field(name) == [k |-> "field", s |-> <<name>>]

\* template.format(**values): KeyError at the first field that values
\* does not hold
RECURSIVE str_format(_, _)
str_format(template, values) ==
    IF template = <<>> THEN [raised |-> "none", value |-> <<>>]
    ELSE LET seg == Head(template)
             rest == str_format(Tail(template), values)
         IN  IF seg.k = "field" /\ seg.s[1] \notin DOMAIN values
             THEN [raised |-> "KeyError", value |-> <<>>]
             ELSE IF rest.raised # "none" THEN rest
             ELSE [raised |-> "none",
                   value |-> (IF seg.k = "field" THEN values[seg.s[1]] ELSE seg.s)
                                \o rest.value]

\* an optional keyword argument: <<>> is None, <<v>> is v
None == <<>>
Some(v) == <<v>>

\* the values dict of render_prefix
render_prefix_values(image_stem, expr, run_id, seed, steps, cfg, denoise, sampler, scheduler) ==
    LET base == [key \in {"image", "expr", "run", "seed"} |->
                    CASE key = "image" -> safe_filename(image_stem)
                      [] key = "expr" -> safe_filename(expr)
                      [] key = "run" -> safe_filename(run_id)
                      [] key = "seed" -> Str(seed)]
        extra == {key \in {"steps", "cfg", "denoise", "sampler", "scheduler"} :
                     CASE key = "steps" -> steps # None
                       [] key = "cfg" -> cfg # None
                       [] key = "denoise" -> denoise # None
                       [] key = "sampler" -> sampler # None
                       [] key = "scheduler" -> scheduler # None}
    IN  [key \in {"image", "expr", "run", "seed"} \cup extra |->
            CASE key \in DOMAIN base -> base[key]
              [] key = "steps" -> Str(steps[1])
              [] key = "cfg" -> _fmt_float(cfg[1])
              [] key = "denoise" -> _fmt_float(denoise[1])
              [] key = "sampler" -> safe_filename(sampler[1])
              [] key = "scheduler" -> safe_filename(scheduler[1])]

\* a format that leaves out a field that values does not hold
RECURSIVE format_dropping(_, _)
format_dropping(template, values) ==
    IF template = <<>> THEN <<>>
    ELSE LET seg == Head(template) IN
         (IF seg.k = "lit" THEN seg.s
          ELSE IF seg.s[1] \in DOMAIN values THEN values[seg.s[1]] ELSE <<>>)
            \o format_dropping(Tail(template), values)

\* render_prefix that drops the segment of a field it has no value for
render_prefix_dropping(template, image_stem, expr, run_id, seed, steps, cfg, denoise, sampler, scheduler) ==
    [raised |-> "none",
     value |-> format_dropping(template,
                   render_prefix_values(image_stem, expr, run_id, seed, steps, cfg,
                                        denoise, sampler, scheduler))]

\* render_prefix
render_prefix(template, image_stem, expr, run_id, seed, steps, cfg, denoise, sampler, scheduler) ==
    str_format(template,
               render_prefix_values(image_stem, expr, run_id, seed, steps, cfg,
                                    denoise, sampler, scheduler))

\* compute_seed that does not look at the index
compute_seed_without_index(strategy, base, index, now) ==
    IF strategy = "time" THEN now ELSE base

\* compute_seed; now is what generate_seed() returns at the call
compute_seed(strategy, base, index, now) ==
    IF strategy = "time" THEN now
    ELSE IF strategy = "fixed" THEN base
    ELSE base + index

\* texts of the model
T_cat == <<"c", "a", "t">>
T_a_b == <<"a", "*", "b">>
T_smile == <<"s", "m", "i", "l", "e">>
T_wink == <<"w", "i", "n", "k">>
T_img == <<"/", "i", "m", "g">>

\* the image files of images-dir, by stem, in the order iterdir() gives
ImagePool == <<T_cat, T_a_b>> \o [i \in 1..MaxRuns |-> T_cat \o Str(i)]
\* cfg["expressions"]
ExpressionLists == {<<T_smile>>, <<T_smile, T_wink>>}

\* save_image.filename_prefix_template: the default; one with {seed}; one
\* with the sampler fields; one with a field render_prefix never has
PrefixTemplates ==
    {<<Field("image"), Lit(<<"/">>), Field("expr"), Lit(<<"/">>), Field("run"),
       Lit(T_img)>>,
     <<Field("expr"), Lit(<<"_">>), Field("seed")>>,
     <<Field("image"), Lit(<<"/">>), Field("steps"), Lit(<<"_">>), Field("cfg"),
       Lit(<<"_">>), Field("sampler"), Lit(T_img)>>,
     <<Field("image"), Lit(<<"/">>), Field("undeclared"), Lit(T_img)>>}

\* the sampler combos of the loop: one all-None combo without a
\* sampler_sweep, else the product of its five lists
NoSweep == <<[steps |-> None, cfg |-> None, denoise |-> None, sampler |-> None,
              scheduler |-> None]>>
SweepCombos(steps_list) ==
    LET prod == Product(<<steps_list, <<7500>>, <<320>>,
                          <<<<"e", "u", "l", "e", "r">>>>,
                          <<<<"n", "o", "r", "m", "a", "l">>>>>>)
    IN  [i \in 1..Len(prod) |->
            [steps |-> Some(prod[i][1]), cfg |-> Some(prod[i][2]),
             denoise |-> Some(prod[i][3]), sampler |-> Some(prod[i][4]),
             scheduler |-> Some(prod[i][5])]]
ComboLists == {NoSweep, SweepCombos(<<20>>), SweepCombos(<<20, 30>>)}

\* generate_run_id(): a fresh id for every run (uuid4), here "r" and the
\* number of the run
generate_run_id(k) == <<"r">> \o Str(k)

\* the invocations: RunConfig (repeats > 0, seed_strategy one of three,
\* seed_base an int), the config sections read by main, --dry-run, and the
\* files found
BatchInvocations ==
    {[seed_strategy |-> st, seed_base |-> b, repeats |-> rp, template |-> tp,
      expressions |-> ex, combos |-> cb, dry_run |-> dr, upload |-> up,
      files |-> SubSeq(ImagePool, 1, nf)] :
        st \in {"time", "increment", "fixed"}, b \in {0, 100}, rp \in 1..MaxRuns,
        tp \in PrefixTemplates, ex \in ExpressionLists, cb \in ComboLists,
        dr \in BOOLEAN, up \in BOOLEAN, nf \in 0..MaxImages}

PlannedRuns(inv) ==
    Len(inv.files) * Len(inv.expressions) * Len(inv.combos) * inv.repeats

BatchInit ==
    /\ \E inv \in BatchInvocations :
          /\ PlannedRuns(inv) <= MaxRuns
          /\ Len(inv.files) = 0 => inv.repeats = 1
          /\ batch = [inv |-> inv, pc |-> "start", fi |-> 1, ei |-> 1, ci |-> 1,
                      ri |-> 0, seed_counter |-> 0, uploaded_name |-> <<>>,
                      runs |-> <<>>, meta |-> {}, exitCode |-> -1,
                      api |-> {}, uploads |-> <<>>]
    /\ gen = <<>>
    /\ cl = <<>>
    /\ qry = <<>>
    /\ ep = <<>>
    /\ StateIdle
    /\ InjIdle
    /\ RunIdle

\* the meta.json written at path: a later write replaces an earlier one
write_meta_json(meta, path, content) ==
    {f \in meta : f.path # path} \cup {[path |-> path, content |-> content]}

\* client = ComfyUIClient(...); if not client.is_alive(): return 3.  The
\* check is made with and without --dry-run; the construction of the
\* workflow manager that follows it succeeds
batch_main(alive) ==
    /\ batch.pc = "start"
    /\ batch' = IF alive
                THEN [batch EXCEPT !.pc = "image", !.api = @ \cup {"system_stats"}]
                ELSE [batch EXCEPT !.pc = "done", !.exitCode = 3,
                                   !.api = @ \cup {"system_stats"}]

\* batch_image that gives the invocation up when an upload fails
batch_image_aborting(resp) ==
    /\ batch.pc = "image"
    /\ IF batch.fi > Len(batch.inv.files)
       THEN /\ resp = "ok"
            /\ batch' = [batch EXCEPT !.pc = "done", !.exitCode = 0]
       ELSE IF batch.inv.upload /\ ~batch.inv.dry_run
       THEN batch' = [batch EXCEPT
                         !.api = @ \cup {"upload_image"},
                         !.uploads = Append(@, [fi |-> batch.fi, resp |-> resp]),
                         !.pc = IF resp = "ok" THEN "run" ELSE "done",
                         !.exitCode = IF resp = "ok" THEN @ ELSE 1,
                         !.ei = 1, !.ci = 1, !.ri = 0,
                         !.uploaded_name = batch.inv.files[batch.fi]]
       ELSE /\ resp = "ok"
            /\ batch' = [batch EXCEPT !.pc = "run", !.ei = 1, !.ci = 1, !.ri = 0,
                            !.uploaded_name = batch.inv.files[batch.fi]]

\* the head of the files loop for one image: the end of the loop (return
\* 0), or the upload (made when input_image.upload is set and --dry-run is
\* not), which on failure or on a response without a name goes on to the
\* next image
batch_image(resp) ==
    /\ batch.pc = "image"
    /\ IF batch.fi > Len(batch.inv.files)
       THEN /\ resp = "ok"
            /\ batch' = [batch EXCEPT !.pc = "done", !.exitCode = 0]
       ELSE IF batch.inv.upload /\ ~batch.inv.dry_run
       THEN IF resp # "ok"
            THEN batch' = [batch EXCEPT
                              !.api = @ \cup {"upload_image"},
                              !.uploads = Append(@, [fi |-> batch.fi, resp |-> resp]),
                              !.fi = @ + 1]
            ELSE batch' = [batch EXCEPT
                              !.api = @ \cup {"upload_image"},
                              !.uploads = Append(@, [fi |-> batch.fi, resp |-> resp]),
                              !.pc = "run", !.ei = 1, !.ci = 1, !.ri = 0,
                              !.uploaded_name = batch.inv.files[batch.fi]]
       ELSE /\ resp = "ok"
            /\ batch' = [batch EXCEPT !.pc = "run", !.ei = 1, !.ci = 1, !.ri = 0,
                            !.uploaded_name = batch.inv.files[batch.fi]]

\* one turn of the innermost loop: seed, prefix, meta, and without
\* --dry-run create_workflow and execute_and_wait; then the loop counters,
\* the write_meta_json that follows the combos loop of an expression, and
\* the next image after the last expression
batch_run(now) ==
    /\ batch.pc = "run"
    /\ batch.inv.seed_strategy # "time" => now = 0
    /\ LET inv == batch.inv
           image_stem == inv.files[batch.fi]
           expr == inv.expressions[batch.ei]
           combo == inv.combos[batch.ci]
           run_id == generate_run_id(batch.seed_counter)
           seed == compute_seed(inv.seed_strategy, inv.seed_base,
                                batch.seed_counter, now)
           prefix == render_prefix(inv.template, image_stem, expr, run_id, seed,
                                   combo.steps, combo.cfg, combo.denoise,
                                   combo.sampler, combo.scheduler)
           meta_path == <<safe_filename(image_stem), safe_filename(expr),
                          safe_filename(run_id)>>
           this == [image |-> image_stem, expr |-> expr, ci |-> batch.ci,
                    repeat_index |-> batch.ri, seed |-> seed,
                    filename_prefix |-> prefix.value, raised |-> prefix.raised,
                    submitted |-> prefix.raised = "none" /\ ~inv.dry_run]
           meta1 == IF inv.dry_run
                    THEN write_meta_json(batch.meta, meta_path,
                             [seed |-> seed, dry_run |-> TRUE, result |-> FALSE])
                    ELSE batch.meta
           last_repeat == batch.ri + 1 >= inv.repeats
           last_combo == last_repeat /\ batch.ci >= Len(inv.combos)
           last_expr == last_combo /\ batch.ei >= Len(inv.expressions)
           meta2 == IF last_combo
                    THEN write_meta_json(meta1, meta_path,
                             [seed |-> seed, dry_run |-> FALSE,
                              result |-> ~inv.dry_run])
                    ELSE meta1
       IN  IF prefix.raised # "none"
           THEN batch' = [batch EXCEPT !.pc = "raised", !.exitCode = 1,
                             !.seed_counter = @ + 1, !.runs = Append(@, this)]
           ELSE batch' = [batch EXCEPT
                             !.seed_counter = @ + 1,
                             !.runs = Append(@, this),
                             !.api = IF inv.dry_run THEN @
                                     ELSE @ \cup {"prompt", "history"},
                             !.meta = meta2,
                             !.ri = IF last_repeat THEN 0 ELSE @ + 1,
                             !.ci = IF last_combo THEN 1
                                    ELSE IF last_repeat THEN @ + 1 ELSE @,
                             !.ei = IF last_expr THEN 1
                                    ELSE IF last_combo THEN @ + 1 ELSE @,
                             !.fi = IF last_expr THEN @ + 1 ELSE @,
                             !.pc = IF last_expr THEN "image" ELSE "run"]

BatchNext ==
    \/ \E alive \in BOOLEAN :
          batch_main(alive) /\ UNCHANGED <<stateVars, injVars, runVars, gen, cl, qry, ep>>
    \/ \E resp \in {"ok", "failed", "noname"} :
          batch_image(resp) /\ UNCHANGED <<stateVars, injVars, runVars, gen, cl, qry, ep>>
    \/ \E now \in Seeds \cup {0} :
          batch_run(now) /\ UNCHANGED <<stateVars, injVars, runVars, gen, cl, qry, ep>>

SpecBatch == BatchInit /\ [][BatchNext]_vars

(***************************************************************************)
(* The remote execution client (comfyui_client.py) and the loop that calls *)
(* execute_and_wait once per run.  Time is counted in ticks; elapsed is    *)
(* time.time() - start_time of the wait in progress.  Prompt ids are the   *)
(* positions of the jobs in the remote's list.                             *)
(***************************************************************************)
MaxJobs == 2
MaxWait == 2
MaxPoll == 2
MaxRequestTime == 1
MaxClock == MaxWait + MaxPoll + MaxRequestTime

\* ComfyUIResponse
ComfyUIResponse(success, data, error_message) ==
    [success |-> success, data |-> data, error_message |-> error_message]

\* no response yet
NoResponse == ComfyUIResponse(FALSE, <<>>, "")

\* what _handle_request returns when the request fails (HTTP error,
\* connection error, request timeout, any other exception)
RequestFailure == ComfyUIResponse(FALSE, <<>>, "request failed")

\* Python truth of an Optional[float]
Truthy(max_wait_time) == max_wait_time # None /\ max_wait_time[1] # 0

\* the test at the top of the loop, with the clock never consulted
timed_out_never(max_wait_time, elapsed) == FALSE

\* the test at the top of the loop of wait_for_completion
timed_out(max_wait_time, elapsed) == Truthy(max_wait_time) /\ elapsed > max_wait_time[1]

\* the failure wait_for_completion returns on timeout
TimeoutFailure == ComfyUIResponse(FALSE, <<>>, "Timeout")

\* prompt_id in history and "outputs" in history[prompt_id]
has_outputs(history, prompt_id) ==
    /\ prompt_id \in DOMAIN history
    /\ "outputs" \in history[prompt_id]

\* the bodies GET /history/{prompt_id} can answer for the remote's jobs:
\* nothing or an entry without outputs while the job is pending, the entry
\* with its outputs once it has finished
HistoryBodies(jobs, prompt_id) ==
    IF jobs[prompt_id] = "pending"
    THEN {<<>>, prompt_id :> {"prompt"}}
    ELSE {prompt_id :> {"prompt", "outputs", "status"}}

\* the responses get_history can return
get_history(jobs, prompt_id) ==
    {RequestFailure}
       \cup {ComfyUIResponse(TRUE, body, "") : body \in HistoryBodies(jobs, prompt_id)}

\* every response a history request can get, whatever the jobs
HistoryResponses ==
    {RequestFailure}
       \cup {ComfyUIResponse(TRUE, body, "") :
               body \in {<<>>} \cup {id :> keys : id \in 1..MaxJobs,
                          keys \in {{"prompt"}, {"prompt", "outputs", "status"}}}}

\* the calls of execute_and_wait: run_generation passes no max_wait_time,
\* the batch script passes run.timeout_sec (None or positive)
ClientCallers ==
    {[caller |-> "run_generation", max_wait_time |-> None]}
       \cup {[caller |-> "main", max_wait_time |-> m] :
                m \in {None} \cup {Some(w) : w \in 1..MaxWait}}

ClientInit ==
    /\ InjIdle /\ StateIdle /\ RunIdle
    /\ gen = <<>> /\ batch = <<>>
    /\ qry = <<>> /\ ep = <<>>
    /\ \E c \in ClientCallers, p \in 1..MaxPoll, n \in 1..MaxJobs :
          cl = [caller |-> c.caller, max_wait_time |-> c.max_wait_time,
                poll_interval |-> p, runs_left |-> n, pc |-> "submit",
                prompt_id |-> 0, elapsed |-> 0, response |-> NoResponse,
                jobs |-> <<>>, results |-> <<>>, requests |-> {}]

\* the caller's loop after execute_and_wait returned result
Returned(c, result) ==
    [c EXCEPT !.results = Append(@, result),
              !.runs_left = @ - 1,
              !.pc = IF c.runs_left = 1 THEN "end" ELSE "submit"]

\* execute_and_wait up to the call of wait_for_completion: queue_prompt,
\* then the prompt id of its response
execute_and_wait(resp) ==
    /\ cl.pc = "submit"
    /\ LET c == [cl EXCEPT !.requests = @ \cup {"prompt"}] IN
       CASE resp = "failed" -> cl' = Returned(c, RequestFailure)
         [] resp = "no_prompt_id" ->
              cl' = Returned(c, ComfyUIResponse(FALSE, <<>>, "Failed to get prompt_id from queue response"))
         [] resp = "ok" ->
              cl' = [c EXCEPT !.jobs = Append(@, "pending"),
                              !.prompt_id = Len(cl.jobs) + 1,
                              !.elapsed = 0,
                              !.pc = "poll"]
    /\ UNCHANGED <<injVars, stateVars, runVars, gen, batch, qry, ep>>

\* one turn of the loop of wait_for_completion up to time.sleep: the
\* timeout test, then get_history (which takes d ticks) and the two tests
\* of its response
wait_for_completion(response, d) ==
    /\ cl.pc = "poll"
    /\ IF timed_out(cl.max_wait_time, cl.elapsed)
       THEN cl' = Returned(cl, TimeoutFailure)
       ELSE /\ response \in get_history(cl.jobs, cl.prompt_id)
            /\ cl.elapsed + d <= MaxClock
            /\ LET c == [cl EXCEPT !.requests = @ \cup {"history"},
                                   !.elapsed = @ + d,
                                   !.response = response] IN
               IF ~response.success THEN cl' = Returned(c, response)
               ELSE IF has_outputs(response.data, cl.prompt_id)
                    THEN cl' = Returned(c, response)
                    ELSE cl' = [c EXCEPT !.pc = "sleep"]
    /\ UNCHANGED <<injVars, stateVars, runVars, gen, batch, qry, ep>>

\* time.sleep(poll_interval), back to the top of the loop
wait_for_completion_sleep ==
    /\ cl.pc = "sleep"
    /\ cl.elapsed + cl.poll_interval <= MaxClock
    /\ cl' = [cl EXCEPT !.elapsed = @ + cl.poll_interval, !.pc = "poll"]
    /\ UNCHANGED <<injVars, stateVars, runVars, gen, batch, qry, ep>>

\* the remote service finishes its oldest pending job
remote_finish(outcome) ==
    /\ \E j \in 1..Len(cl.jobs) :
          /\ cl.jobs[j] = "pending"
          /\ \A i \in 1..(j - 1) : cl.jobs[i] # "pending"
          /\ cl' = [cl EXCEPT !.jobs[j] = outcome]
    /\ UNCHANGED <<injVars, stateVars, runVars, gen, batch, qry, ep>>

ClientNext ==
    \/ \E resp \in {"ok", "failed", "no_prompt_id"} : execute_and_wait(resp)
    \/ \E response \in HistoryResponses,
          d \in 0..MaxRequestTime : wait_for_completion(response, d)
    \/ wait_for_completion_sleep
    \/ \E outcome \in {"completed", "failed"} : remote_finish(outcome)

SpecClient == ClientInit /\ [][ClientNext]_vars

\* the calling thread keeps running: every request returns within the
\* request timeout and time.sleep returns
SpecClientFair ==
    /\ ClientInit /\ [][ClientNext]_vars
    /\ WF_vars(\E response \in HistoryResponses, d \in 0..MaxRequestTime :
                  wait_for_completion(response, d))
    /\ WF_vars(wait_for_completion_sleep)

\* the (node id, input name) pairs of graph value g whose input is a link
LinksOf(g) ==
    {<<n, k>> \in UNION {{<<m, x>> : x \in
                 IF g[m].t = "dict" /\ "inputs" \in DOMAIN g[m].v
                    /\ g[m].v["inputs"].t = "dict"
                 THEN DOMAIN g[m].v["inputs"].v ELSE {}} : m \in DOMAIN g} :
        IsLink(g[n].v["inputs"].v[k].v)}

(***************************************************************************)
(* C1: an injector call never changes an input that holds a link: every    *)
(* input that is a list before the call is the same list after it, and a   *)
(* workflow created from the base graph has every link of the base graph.  *)
(***************************************************************************)
C1_LinksPreserved ==
    [][/\ \A a \in DOMAIN heap : \A k \in DOMAIN heap[a] :
             IsLink(heap[a][k]) => heap'[a][k] = heap[a][k]
       /\ Len(wfs') > Len(wfs) =>
             \A nk \in LinksOf(loaded) :
                 LET g == Graph(heap', wfs'[Len(wfs')]) IN
                 g[nk[1]].v["inputs"].v[nk[2]] = loaded[nk[1]].v["inputs"].v[nk[2]]]_vars

(***************************************************************************)
(* C2: whatever get_base_workflow, create_configured_workflow /            *)
(* create_workflow, apply_params and set_filename_prefix calls are made,   *)
(* the manager's base workflow stays equal to the graph loaded at          *)
(* construction, the workflows handed out share no object with each other  *)
(* or with the base, and a call that changes one workflow changes no       *)
(* other.                                                                  *)
(***************************************************************************)
C2_BaseAndCopiesIndependent ==
    [][/\ Graph(heap', mgr'.base) = loaded
       /\ \A i \in 1..Len(wfs') :
             /\ Reach(heap', wfs'[i], GraphDepth)
                    \cap Reach(heap', mgr'.base, GraphDepth) = {}
             /\ \A j \in 1..Len(wfs') : i # j =>
                    Reach(heap', wfs'[i], GraphDepth)
                       \cap Reach(heap', wfs'[j], GraphDepth) = {}
       /\ \A i \in 1..Len(wfs) : \A j \in 1..Len(wfs) :
             (i # j /\ Graph(heap', wfs[i]) # Graph(heap, wfs[i])) =>
                 Graph(heap', wfs[j]) = Graph(heap, wfs[j])]_vars

\* two workflows were created and written differently, both unlike the base
C2_Witness ==
    /\ Len(wfs) = 2
    /\ Graph(heap, wfs[1]) # Graph(heap, wfs[2])
    /\ Graph(heap, wfs[1]) # loaded
    /\ Graph(heap, wfs[2]) # loaded
    /\ Graph(heap, mgr.base) = loaded

\* a node id that validate_workflow requires is missing from the workflow file
MissingRequired ==
    \E node_id \in {node_mapping.positive_prompt, node_mapping.negative_prompt,
                     node_mapping.ksampler, node_mapping.lora,
                     node_mapping.save_image} :
        node_id \notin DOMAIN loaded

ExpectedSubmissions(target) ==
    [k \in 1..(count_combinations(target) * Repeats) |->
        [combo |-> ((k - 1) \div Repeats) + 1,
         repeat |-> ((k - 1) % Repeats) + 1,
         positive |-> generate_combinations(target)[((k - 1) \div Repeats) + 1].positive_prompt]]

(***************************************************************************)
(* C4: a submission, whatever its outcome, leaves the sweep running; what  *)
(* has been submitted is always a prefix of the generator's combinations,  *)
(* each Repeats times, in order; and when the sweep ends everything was    *)
(* submitted and completed_images + failed_images =                        *)
(* count_combinations(target) * repeats.                                   *)
(***************************************************************************)
C4_SweepContinuesPastFailures ==
    [][/\ (hist'.inv = hist.inv /\ run'.submitted # run.submitted) =>
             /\ run'.pc \in {"combo", "repeat"}
             /\ Len(run'.submitted) <= Len(ExpectedSubmissions(run.target))
             /\ run'.submitted =
                   SubSeq(ExpectedSubmissions(run.target), 1, Len(run'.submitted))
             /\ run'.completed_images + run'.failed_images = Len(run'.submitted)
       /\ (run.pc = "combo" /\ run'.pc = "done" /\ run'.exitCode = 0) =>
             /\ run'.submitted = ExpectedSubmissions(run.target)
             /\ run'.completed_images + run'.failed_images
                   = count_combinations(run.target) * Repeats]_vars

\* a sweep of several combinations ended after failed and successful runs
C4_Witness ==
    /\ run.pc = "done"
    /\ run.exitCode = 0
    /\ lastOp = Op("mark", run.target)
    /\ run.failed_images >= 2
    /\ run.completed_images >= 1
    /\ count_combinations(run.target) >= 2
    /\ Len(run.submitted) = count_combinations(run.target) * Repeats

(***************************************************************************)
(* C5: once a run has been executed there is a metadata file of that run   *)
(* that records its outcome: the success flag, and the error text when     *)
(* the submission failed.                                                  *)
(***************************************************************************)
C5_RunMetadataRecordsOutcome ==
    run.submitted # <<>> =>
        \E f \in run.metaFiles :
            /\ f.combo = run.submitted[Len(run.submitted)].combo
            /\ "success" \in f.keys
            /\ run.lastResp # "success" => "error" \in f.keys

(***************************************************************************)
(* C6: within an invocation the used set and the state file change only    *)
(* in the step that ends a sweep whose every combination and repeat has    *)
(* been executed, and that step adds exactly the target axis and persists  *)
(* the set; a sweep that runs to its end takes that step; an invocation    *)
(* that ends in any other way (declined, interrupted, fatal error) leaves  *)
(* the used set and the file as they were at its start.                    *)
(***************************************************************************)
C6_MarkedOnlyAfterSweep ==
    [][hist'.inv = hist.inv =>
          /\ (tr'[1].used # tr[1].used \/ file' # file) =>
                /\ Len(run.submitted) = count_combinations(run.target) * Repeats
                /\ run.target \notin tr[1].used
                /\ tr[1].used = run.usedAtStart
                /\ tr'[1].used = tr[1].used \cup {run.target}
                /\ file' = StateManager_save(tr'[1].used)
          /\ (run.pc = "combo" /\ run'.pc = "done" /\ run'.exitCode = 0) =>
                lastOp' = Op("mark", run.target)
          /\ (run.pc # "done" /\ run'.pc = "done" /\ lastOp'.op # "mark") =>
                /\ file' = run.fileAtStart
                /\ tr'[1].used = run.usedAtStart]_vars

\* a sweep with failed runs ended and its target is in the file
C6_Witness ==
    /\ run.pc = "done"
    /\ run.exitCode = 0
    /\ lastOp = Op("mark", run.target)
    /\ run.failed_images >= 1
    /\ file # run.fileAtStart
    /\ file = StateManager_save(run.usedAtStart \cup {run.target})
    /\ hist.inv >= 2

(***************************************************************************)
(* C7: the selected target axis is a declared axis that is not in the used *)
(* set, and an invocation started when every declared axis is already used *)
(* ends with exit code 0 without submitting any workflow.                  *)
(***************************************************************************)
C7_TargetUnusedAndAllUsedExitsZero ==
    /\ run.target # "" =>
          /\ run.target \in Range(get_axis_names)
          /\ run.target \notin run.usedAtStart
    /\ (run.prog = "explorer" /\ run.pc = "done" /\ tr[1].state = "ok"
          /\ Range(get_axis_names) \subseteq run.usedAtStart) =>
          /\ run.exitCode = 0
          /\ run.submitted = <<>>

(***************************************************************************)
(* C8: over the invocations that share the state file no axis is swept     *)
(* twice, a completed sweep grows the used set by exactly one axis, and    *)
(* an invocation started after as many completed sweeps as there are       *)
(* declared axes submits nothing.                                          *)
(***************************************************************************)
C8_NoAxisSweptTwice ==
    /\ \A i \in 1..Len(hist.swept) : \A j \in 1..Len(hist.swept) :
          i # j => hist.swept[i] # hist.swept[j]
    /\ (run.pc = "done" /\ lastOp.op = "mark") =>
          /\ Cardinality(tr[1].used) = Cardinality(run.usedAtStart) + 1
          /\ run.usedAtStart \subseteq tr[1].used
    /\ run.sweptAtStart >= Len(get_axis_names) => run.submitted = <<>>

\* every declared axis was swept, one per invocation, and one more
\* invocation ran to its end
C8_Witness ==
    /\ Len(hist.swept) = Len(get_axis_names)
    /\ run.sweptAtStart = Len(get_axis_names)
    /\ run.prog = "explorer"
    /\ run.health = "up"
    /\ run.pc = "done"
    /\ run.exitCode = 0

(***************************************************************************)
(* C9: after any sequence of mark_as_used, remove_axis and reset on a      *)
(* manager, a new StateManager constructed on the same file loads without  *)
(* raising and holds exactly the first manager's in-memory used set; a     *)
(* name just passed to mark_as_used is in the reloaded set and absent from *)
(* the reloaded manager's get_remaining_axes.                              *)
(***************************************************************************)
C9_ReloadRoundTrip ==
    [][(tr[2].state = "none" /\ tr'[2].state # "none") =>
          /\ tr'[2].state = "ok"
          /\ tr'[2].used = tr[1].used
          /\ lastOp.op = "mark" =>
                /\ lastOp.name \in tr'[2].used
                /\ lastOp.name \notin
                       Range(get_remaining_axes(tr'[2].used, get_axis_names))]_vars

\* a manager was reloaded after a mark_as_used of a declared axis that
\* followed a remove (the reloaded set is not empty and not the initial one)
C9_Witness ==
    /\ tr[2].state = "ok"
    /\ lastOp.op = "mark"
    /\ lastOp.name \in Range(get_axis_names)
    /\ Cardinality(tr[1].used) >= 2
    /\ file = StateManager_save(tr[1].used)

(***************************************************************************)
(* C10: constructing a StateManager never raises because of the file's     *)
(* content, and on an absent, non-JSON or unexpectedly shaped file the     *)
(* manager starts with an empty used set.                                  *)
(***************************************************************************)
C10_LoadNeverFails ==
    [][\A t \in 1..2 :
          (tr[t].state = "none" /\ tr'[t].state # "none") =>
              /\ tr'[t].state = "ok"
              /\ ~WellFormed(file) => tr'[t].used = {}]_vars

\* the template of the generator declares an axis of that name
Declared(name) == \E i \in 1..Len(gen.axes) : gen.axes[i].name = name

(***************************************************************************)
(* C11: generate_combinations with a target axis name that no declared     *)
(* axis has ends in an error and yields no combination.                    *)
(***************************************************************************)
C11_UnknownTargetRaises ==
    (gen.first.raised # "unset" /\ ~Declared(gen.target_axis_name))
        => (gen.first.raised # "none" /\ gen.first.items = <<>>)

\* |target axis values| x |steps| x |cfg| x |sampler_name| x |scheduler|
\*   x |lora names| x |model_strength| x |clip_strength|
ExpectedCount ==
    Len(get_axis_by_name(gen.axes, gen.target_axis_name).axis.choices)
      * Len(gen.sampler_choices.steps) * Len(gen.sampler_choices.cfg)
      * Len(gen.sampler_choices.sampler_name) * Len(gen.sampler_choices.scheduler)
      * Len(gen.lora_choices.names) * Len(gen.lora_choices.model_strength)
      * Len(gen.lora_choices.clip_strength)

(***************************************************************************)
(* C12: for a declared target axis, count_combinations returns a number,   *)
(* generate_combinations yields exactly that many items, and the number is *)
(* the size of the target axis times the sizes of the four sampler lists   *)
(* and the three LoRA lists (every non-target axis counts for 1).          *)
(***************************************************************************)
C12_YieldsExactlyCount ==
    (/\ gen.first.raised # "unset"
     /\ gen.count.raised # "unset"
     /\ Declared(gen.target_axis_name))
        => /\ gen.count.raised = "none"
           /\ Len(gen.first.items) = gen.count.value
           /\ gen.count.value = ExpectedCount

\* the keys of a dict, and the value it holds for a key
DictKeys(d) == {d[i][1] : i \in 1..Len(d)}
DictGet(d, key) == d[CHOOSE i \in 1..Len(d) : d[i][1] = key][2]

\* record p carries sampler tuple s and LoRA tuple l
HasTuple(p, s, l) ==
    /\ <<p.sampler.steps, p.sampler.cfg, p.sampler.sampler_name,
         p.sampler.scheduler>> = s
    /\ <<p.lora.name, p.lora.model_strength, p.lora.clip_strength>> = l

(***************************************************************************)
(* C13: after an enumeration for a declared target axis, every declared    *)
(* value of that axis appears with every sampler tuple and LoRA tuple in   *)
(* exactly one yielded record, and every yielded record holds exactly one  *)
(* value for each declared axis.                                           *)
(***************************************************************************)
C13_TargetValuesCoveredOnce ==
    (gen.first.raised # "unset" /\ Declared(gen.target_axis_name)) =>
        LET sc == gen.sampler_choices
            lc == gen.lora_choices
            items == gen.first.items
            values == get_all_values(
                          get_axis_by_name(gen.axes, gen.target_axis_name).axis)
        IN  /\ \A v \in Range(values) :
                 \A s \in Range(Product(<<sc.steps, sc.cfg, sc.sampler_name,
                                          sc.scheduler>>)) :
                    \A l \in Range(Product(<<lc.names, lc.model_strength,
                                             lc.clip_strength>>)) :
                       Cardinality({k \in 1..Len(items) :
                           /\ gen.target_axis_name \in DictKeys(items[k].prompt_values)
                           /\ DictGet(items[k].prompt_values, gen.target_axis_name) = v
                           /\ HasTuple(items[k], s, l)}) = 1
            /\ \A k \in 1..Len(items) :
                 /\ DictKeys(items[k].prompt_values)
                       = {gen.axes[i].name : i \in 1..Len(gen.axes)}
                 /\ \A i, j \in 1..Len(items[k].prompt_values) :
                       items[k].prompt_values[i][1] = items[k].prompt_values[j][1]
                          => i = j

\* the declared axis names other than the target
NonTargetNames ==
    {gen.axes[i].name : i \in 1..Len(gen.axes)} \ {gen.target_axis_name}

\* the first choice declared for the axis of that name, as a list of one
\* (empty when the axis declares none)
FirstDeclared(name) ==
    LET values == get_all_values(get_axis_by_name(gen.axes, name).axis) IN
    IF values = <<>> THEN <<>> ELSE <<values[1]>>

\* the enumerations made so far
Enumerations == {r \in {gen.first, gen.second} : r.raised # "unset"}

(***************************************************************************)
(* C14: with randomize_non_target off, every yielded record gives each     *)
(* non-target axis the first choice declared for it, and a second          *)
(* enumeration yields the same sequence as the first; with it on, all      *)
(* records of one enumeration give a non-target axis one and the same      *)
(* value.                                                                  *)
(***************************************************************************)
C14_NonTargetAxesCollapsed ==
    /\ ~gen.randomize_non_target =>
          /\ \A r \in Enumerations : \A k \in 1..Len(r.items) :
                \A n \in NonTargetNames :
                   <<DictGet(r.items[k].prompt_values, n)>> = FirstDeclared(n)
          /\ gen.second.raised # "unset" => gen.second = gen.first
    /\ gen.randomize_non_target =>
          \A r \in Enumerations : \A k, j \in 1..Len(r.items) :
             \A n \in NonTargetNames :
                DictGet(r.items[k].prompt_values, n)
                   = DictGet(r.items[j].prompt_values, n)

\* two enumerations without randomization, several records each, over a
\* template whose non-target axis declares two different choices
C14_Witness ==
    /\ ~gen.randomize_non_target
    /\ gen.second.raised = "none"
    /\ Len(gen.second.items) >= 2
    /\ Declared(gen.target_axis_name)
    /\ \E n \in NonTargetNames :
          LET values == get_all_values(get_axis_by_name(gen.axes, n).axis) IN
          Len(values) = 2 /\ values[1] # values[2]

\* the node ids a manager's configuration requires: the fixed ones and the
\* optional ones that are configured
RequiredIds(m) ==
    IF m.kind = "WM"
    THEN {node_mapping.positive_prompt, node_mapping.negative_prompt,
          node_mapping.ksampler, node_mapping.lora, node_mapping.save_image}
    ELSE {m.cfg.input_image_node_id, m.cfg.expression_node}
            \cup ({m.cfg.save_image_node_id, m.cfg.seed_node_id,
                   m.cfg.sampler_node_id} \ {""})

\* what the manager's validation answers for the workflow at wf
Validates(m, h, wf) ==
    IF m.kind = "WM" THEN validate_workflow(h, wf) ELSE validate(m.cfg, h, wf)

(***************************************************************************)
(* C15: validation of the base workflow, or of a workflow made from it,    *)
(* answers true exactly when every required node id and every configured   *)
(* optional node id (save image, seed, sampler) is in the graph (a graph   *)
(* whose keys all hold node records).                                      *)
(***************************************************************************)
C15_ValidateIffNodesPresent ==
    \A wf \in {mgr.base} \cup Range(wfs) :
        (\A id \in DOMAIN heap[wf] : IsRef(heap[wf][id])) =>
            (Validates(mgr, heap, wf) <=> (RequiredIds(mgr) \subseteq DOMAIN heap[wf]))

\* the (node id, input name) pairs that create_configured_workflow /
\* create_workflow always bind, for the manager at hand
AlwaysBound ==
    IF mgr.kind = "WM"
    THEN {<<node_mapping.positive_prompt, "text">>,
          <<node_mapping.negative_prompt, "text">>,
          <<node_mapping.ksampler, "steps">>, <<node_mapping.ksampler, "seed">>,
          <<node_mapping.lora, "strength_model">>}
    ELSE {<<mgr.cfg.input_image_node_id, "image">>,
          <<mgr.cfg.expression_node, "expression">>}

\* node n of graph value g is a node record whose "inputs" is a mapping
\* that holds a scalar at k
ScalarAt(g, n, k) ==
    /\ n \in DOMAIN g
    /\ g[n].t = "dict"
    /\ "inputs" \in DOMAIN g[n].v
    /\ g[n].v["inputs"].t = "dict"
    /\ k \in DOMAIN g[n].v["inputs"].v
    /\ ~IsLink(g[n].v["inputs"].v[k].v)

(***************************************************************************)
(* C16: no injector call raises, whatever node is absent or has an         *)
(* "inputs" that is not a mapping; and a workflow that a creating call     *)
(* returns with anything written has every always-bound scalar input of a  *)
(* well-formed node written (it no longer holds the loaded graph's value). *)
(***************************************************************************)
C16_ApplySkipsOnlyBrokenBinding ==
    [][/\ injErr' = FALSE
       /\ (Len(wfs') > Len(wfs) /\ Graph(heap', wfs'[Len(wfs')]) # loaded) =>
             LET g == Graph(heap', wfs'[Len(wfs')]) IN
             \A nk \in AlwaysBound :
                 ScalarAt(loaded, nk[1], nk[2]) =>
                     /\ ScalarAt(g, nk[1], nk[2])
                     /\ g[nk[1]].v["inputs"].v[nk[2]]
                           # loaded[nk[1]].v["inputs"].v[nk[2]]]_vars

(***************************************************************************)
(* C17: under seed strategy "increment" with base b the k-th run of an     *)
(* invocation (k = 0, 1, ... in the order of the loops) has seed b + k, so *)
(* the seeds strictly increase; under "fixed" every run has seed b.        *)
(***************************************************************************)
C17_SeedByStrategy ==
    /\ batch.inv.seed_strategy = "increment" =>
          \A k \in 1..Len(batch.runs) :
              /\ batch.runs[k].seed = batch.inv.seed_base + (k - 1)
              /\ \A j \in 1..(k - 1) : batch.runs[j].seed < batch.runs[k].seed
    /\ batch.inv.seed_strategy = "fixed" =>
          \A k \in 1..Len(batch.runs) : batch.runs[k].seed = batch.inv.seed_base

\* base 100, one combination, three repeats: seeds 100, 101, 102, all
\* submitted
C17_Witness ==
    /\ batch.inv.seed_strategy = "increment"
    /\ batch.inv.seed_base = 100
    /\ batch.inv.repeats = 3
    /\ Len(batch.runs) = 3
    /\ \A k \in 1..3 : batch.runs[k].submitted /\ batch.runs[k].seed = 99 + k

\* the names of the replacement fields of a format string
FieldsOf(template) ==
    {template[i].s[1] : i \in {j \in 1..Len(template) : template[j].k = "field"}}

\* the value set of the render_prefix call of run k: the four names that
\* are always there, and the sampler names when the combo supplies them
ValueSetOf(k) ==
    LET combo == batch.inv.combos[batch.runs[k].ci] IN
    {"image", "expr", "run", "seed"}
       \cup (IF combo.steps # None THEN {"steps"} ELSE {})
       \cup (IF combo.cfg # None THEN {"cfg"} ELSE {})
       \cup (IF combo.denoise # None THEN {"denoise"} ELSE {})
       \cup (IF combo.sampler # None THEN {"sampler"} ELSE {})
       \cup (IF combo.scheduler # None THEN {"scheduler"} ELSE {})

\* the text that stands for field name in the prefix of run k
ValueOf(k, name) ==
    LET this == batch.runs[k]
        combo == batch.inv.combos[this.ci]
    IN  CASE name = "image" -> safe_filename(this.image)
          [] name = "expr" -> safe_filename(this.expr)
          [] name = "run" -> safe_filename(generate_run_id(k - 1))
          [] name = "seed" -> Str(this.seed)
          [] name = "steps" -> Str(combo.steps[1])
          [] name = "cfg" -> _fmt_float(combo.cfg[1])
          [] name = "denoise" -> _fmt_float(combo.denoise[1])
          [] name = "sampler" -> safe_filename(combo.sampler[1])
          [] name = "scheduler" -> safe_filename(combo.scheduler[1])

\* the template with every field replaced by its text
RECURSIVE Replaced(_, _)
Replaced(template, k) ==
    IF template = <<>> THEN <<>>
    ELSE (IF Head(template).k = "lit" THEN Head(template).s
          ELSE ValueOf(k, Head(template).s[1])) \o Replaced(Tail(template), k)

(***************************************************************************)
(* C18: the render_prefix call of every run raises when the template has   *)
(* a field that is not in the call's value set, and otherwise returns the  *)
(* template with every field replaced by its value; e.g. image "a*b" under *)
(* {image}/{steps}_{cfg}_{sampler}/img with steps 20, cfg 7.5 and sampler  *)
(* euler gives a_b/20_7.5_euler/img.                                       *)
(***************************************************************************)
C18_RenderPrefixRaisesOrReplaces ==
    \A k \in 1..Len(batch.runs) :
        LET this == batch.runs[k] IN
        /\ ~(FieldsOf(batch.inv.template) \subseteq ValueSetOf(k)) =>
              this.raised # "none" /\ ~this.submitted
        /\ FieldsOf(batch.inv.template) \subseteq ValueSetOf(k) =>
              /\ this.raised = "none"
              /\ this.filename_prefix = Replaced(batch.inv.template, k)
        /\ (/\ this.image = T_a_b
            /\ FieldsOf(batch.inv.template) = {"image", "steps", "cfg", "sampler"}
            /\ batch.inv.combos[this.ci].steps = Some(20)) =>
              this.filename_prefix
                 = <<"a", "_", "b", "/", "2", "0", "_", "7", ".", "5", "_",
                     "e", "u", "l", "e", "r", "/", "i", "m", "g">>

\* a run without sampler values under a template that names {steps}: the
\* call raised and the script ended there
C18_Witness ==
    /\ batch.pc = "raised"
    /\ "steps" \in FieldsOf(batch.inv.template)
    /\ batch.inv.combos = NoSweep
    /\ batch.runs[Len(batch.runs)].raised = "KeyError"

\* the remote's jobs that have not finished
InFlight(jobs) == {j \in 1..Len(jobs) : jobs[j] = "pending"}

(***************************************************************************)
(* C19: at most one remote submission is in flight: a workflow is          *)
(* submitted only when every job submitted before it has finished on the   *)
(* remote service (completed or failed).                                   *)
(***************************************************************************)
C19_OneSubmissionInFlight ==
    [][Len(cl'.jobs) > Len(cl.jobs) => InFlight(cl.jobs) = {}]_vars

\* an Optional[float] that holds a positive number
Positive(max_wait_time) == max_wait_time # None /\ max_wait_time[1] > 0

(***************************************************************************)
(* C20: a wait_for_completion call with a positive maximum wait returns.   *)
(* A turn of its loop returns the timeout failure when the elapsed time    *)
(* exceeds the maximum; otherwise it polls the history and returns the     *)
(* failed response when the poll failed, the (successful) response when    *)
(* the history has outputs for the prompt id, and goes on to sleep when it *)
(* has not.  A return ends that call only (the caller's loop goes on to    *)
(* its next run), leaves the remote's jobs as they are and sends no        *)
(* interrupt request.                                                      *)
(***************************************************************************)
C20_WaitReturnsWithinMaximum ==
    /\ [][(cl.pc = "poll" /\ cl'.pc # "poll" /\ Positive(cl.max_wait_time)) =>
            LET returned == Len(cl'.results) = Len(cl.results) + 1
                result == cl'.results[Len(cl'.results)]
            IN  /\ IF cl.elapsed > cl.max_wait_time[1]
                   THEN returned /\ result = TimeoutFailure
                   ELSE /\ cl'.response \in get_history(cl.jobs, cl.prompt_id)
                        /\ ~cl'.response.success =>
                              returned /\ result = cl'.response
                        /\ (/\ cl'.response.success
                            /\ has_outputs(cl'.response.data, cl.prompt_id)) =>
                              returned /\ result = cl'.response
                        /\ (/\ cl'.response.success
                            /\ ~has_outputs(cl'.response.data, cl.prompt_id)) =>
                              ~returned /\ cl'.pc = "sleep"
                /\ returned =>
                      cl'.pc = IF cl.runs_left = 1 THEN "end" ELSE "submit"
                /\ cl'.jobs = cl.jobs
                /\ "interrupt" \notin cl'.requests]_vars
    /\ \A n \in 0..MaxJobs :
          (cl.pc \in {"poll", "sleep"} /\ Positive(cl.max_wait_time)
              /\ Len(cl.results) = n) ~> (Len(cl.results) > n)

\* the first call timed out while its job was still pending on the remote,
\* and the caller's loop went on
C20_Witness ==
    /\ Positive(cl.max_wait_time)
    /\ Len(cl.results) >= 1
    /\ cl.results[1] = TimeoutFailure
    /\ Len(cl.jobs) >= 1
    /\ cl.jobs[1] = "pending"
    /\ cl.pc = "submit"

(***************************************************************************)
(* C21: an invocation that ended with a fatal error (a non-zero exit code  *)
(* that is not the operator's interrupt: service unreachable, invalid      *)
(* workflow, exception while loading or running) has written no run        *)
(* metadata file and left the state file as it was at its start.           *)
(***************************************************************************)
C21_FatalErrorLeavesNoTrace ==
    (/\ run.pc = "done"
     /\ run.exitCode \notin {-1, 0}
     /\ run.raised # "KeyboardInterrupt") =>
        /\ run.metaFiles = {}
        /\ file = run.fileAtStart

(***************************************************************************)
(* C22: whatever another writer left in the file, a persisting call on a   *)
(* tracker (mark_as_used, reset, or a remove_axis of a name that is in its *)
(* set) overwrites the file with exactly that tracker's in-memory set: the *)
(* file then holds the sorted list of the set and loads back as that set.  *)
(* With two trackers that is the set of the one that wrote last.           *)
(***************************************************************************)
C22_PersistingCallOverwrites ==
    [][\A t \in 1..2 : \A n \in CallerNames :
          (\/ call_mark_as_used(t, n)
           \/ call_reset(t)
           \/ (call_remove_axis(t, n) /\ n \in tr[t].used)) =>
              /\ file' = FileOf("object", "list", Sorted(tr'[t].used))
              /\ StateManager_load(file').state = "ok"
              /\ StateManager_load(file').used = tr'[t].used]_vars

\* the second tracker wrote last: the file holds its set, and a name of the
\* first tracker's set is not in the file
C22_Witness ==
    /\ tr[1].state = "ok" /\ tr[2].state = "ok"
    /\ qry.t = 2 /\ qry.op = "mark_as_used"
    /\ file = FileOf("object", "list", Sorted(tr[2].used))
    /\ ~(tr[1].used \subseteq tr[2].used)

\* the step is a call of reset or remove_axis
ResetOrRemoveStep ==
    \/ \E t \in 1..2 : call_reset(t)
    \/ \E t \in 1..2 : \E n \in CallerNames : call_remove_axis(t, n)

\* the step is a call of one of the query operations
QueryStep ==
    \/ call_get_used_axes(1)
    \/ \E n \in CallerNames : \E a \in DeclaredLists :
          \E op \in {"is_used", "get_remaining_axes", "is_all_used", "get_progress"} :
             call_query(1, op, n, a)

(***************************************************************************)
(* C23: in a step that is not a call of reset or remove_axis the used set  *)
(* of a tracker does not lose a name; a query (get_used_axes, is_used,     *)
(* get_remaining_axes, is_all_used, get_progress) changes neither a        *)
(* tracker's set nor the file, get_used_axes returns the set, and adding a *)
(* name to the returned set changes neither a tracker nor the file.        *)
(***************************************************************************)
C23_UsedSetOnlyGrows ==
    [][/\ ~ResetOrRemoveStep =>
             \A t \in 1..2 :
                (tr[t].state = "ok" /\ tr'[t].state = "ok") =>
                    tr[t].used \subseteq tr'[t].used
       /\ QueryStep => tr' = tr /\ file' = file
       /\ call_get_used_axes(1) => qry'.ret.value = tr[1].used
       /\ (\E n \in CallerNames : caller_adds(n)) =>
             tr' = tr /\ file' = file]_vars

\* the caller added a name to the set it got from get_used_axes, and the
\* tracker still has the set it had at the call
C23_Witness ==
    /\ qry.op = "get_used_axes"
    /\ tr[1].state = "ok"
    /\ tr[1].used = qry.before
    /\ qry.ret.value # qry.before
    /\ qry.before # {}

(***************************************************************************)
(* C25: remove_axis(name) called right after mark_as_used(name) on the     *)
(* same tracker, for a name that was not in the used set before the mark,  *)
(* leaves the tracker with the set it had before the mark and the file     *)
(* holding that set; remove_axis of a name that is not in the used set     *)
(* changes neither the trackers nor the file.                              *)
(***************************************************************************)
C25_RemoveUndoesMark ==
    [][\A t \in 1..2 : \A n \in CallerNames :
          /\ (/\ call_remove_axis(t, n)
              /\ qry.op = "mark_as_used" /\ qry.t = t /\ qry.arg = n
              /\ n \notin qry.before) =>
                 /\ tr'[t].used = qry.before
                 /\ file' = FileOf("object", "list", Sorted(qry.before))
                 /\ StateManager_load(file').used = qry.before
          /\ (call_remove_axis(t, n) /\ n \notin tr[t].used) =>
                 tr' = tr /\ file' = file]_vars

\* a name was removed from a set of two names; the file holds the other
C25_Witness ==
    /\ qry.op = "remove_axis"
    /\ lastOp = Op("remove", qry.arg)
    /\ qry.arg \in qry.before
    /\ tr[qry.t].used = qry.before \ {qry.arg}
    /\ tr[qry.t].used # {}
    /\ file = FileOf("object", "list", Sorted(tr[qry.t].used))

(***************************************************************************)
(* C29: what get_progress returns has used + len(remaining) = total and a  *)
(* percentage between 0 and 100, whatever the used set and the list of     *)
(* declared axis names.                                                    *)
(***************************************************************************)
C29_ProgressAddsUp ==
    qry.op = "get_progress" =>
        /\ qry.result.used + Len(qry.result.remaining) = qry.result.total
        /\ qry.result.percentage.num >= 0
        /\ qry.result.percentage.num <= 100 * qry.result.percentage.den

\* no two axes of the template have the same name
DistinctAxisNames ==
    \A i, j \in 1..Len(gen.axes) : gen.axes[i].name = gen.axes[j].name => i = j

(***************************************************************************)
(* C24: with randomization on, the value drawn for a non-target axis with  *)
(* a non-empty choice list is the text of one of its choices, and when a   *)
(* choice of the axis has a positive weight it is the text of a choice     *)
(* with a positive weight (a choice of weight zero is not drawn).          *)
(***************************************************************************)
C24_DrawRespectsWeights ==
    (gen.randomize_non_target /\ DistinctAxisNames) =>
        \A r \in Enumerations : \A k \in 1..Len(r.items) :
            \A n \in NonTargetNames :
                LET choices == get_axis_by_name(gen.axes, n).axis.choices
                    v == DictGet(r.items[k].prompt_values, n)
                IN  choices # <<>> =>
                       /\ \E i \in 1..Len(choices) : choices[i].text = v
                       /\ (\E i \in 1..Len(choices) : choices[i].weight > 0) =>
                             \E i \in 1..Len(choices) :
                                choices[i].text = v /\ choices[i].weight > 0

(***************************************************************************)
(* C26: once a run has been submitted, the metadata file of its            *)
(* combination records the seed that the submitted workflow carries in     *)
(* its KSampler node.                                                      *)
(***************************************************************************)
C26_MetadataSeedIsInjectedSeed ==
    run.submitted # <<>> =>
        \E f \in run.metaFiles :
            /\ f.combo = run.submitted[Len(run.submitted)].combo
            /\ f.seed = run.lastSeed

\* the meta.json path of run k of the invocation (run ids are numbered by
\* the seed counter)
MetaPathOf(k) ==
    <<safe_filename(batch.runs[k].image), safe_filename(batch.runs[k].expr),
      safe_filename(generate_run_id(k - 1))>>

(***************************************************************************)
(* C27: with --dry-run the batch runner makes no ComfyUI API call at any   *)
(* point of the invocation (no health check, no image upload, no submit,   *)
(* no history poll), and when the invocation has ended the metadata file   *)
(* of every planned run is there and is marked dry_run.                    *)
(***************************************************************************)
C27_DryRunCallsNothing ==
    batch # <<>> /\ batch.inv.dry_run =>
        /\ batch.api = {}
        /\ batch.pc = "done" =>
              \A k \in 1..Len(batch.runs) :
                  \E f \in batch.meta :
                      f.path = MetaPathOf(k) /\ f.content.dry_run

\* the file indices whose upload failed or came back without a name
FailedUploads ==
    {batch.uploads[u].fi :
        u \in {v \in 1..Len(batch.uploads) : batch.uploads[v].resp # "ok"}}

\* the runs made for the image of file index i
RunsOfImage(i) ==
    {k \in 1..Len(batch.runs) : batch.runs[k].image = batch.inv.files[i]}

(***************************************************************************)
(* C30: when the upload of an input image fails or its response carries no *)
(* stored name, no workflow is submitted for that image (no run of it is   *)
(* made at all), the loop goes on to the next image without ending the     *)
(* invocation, and an invocation that ends with exit code 0 has made every *)
(* planned run of every other image, image after image in the order of the *)
(* files.                                                                  *)
(***************************************************************************)
C30_FailedUploadSkipsImage ==
    /\ [][(/\ batch # <<>> /\ batch.pc = "image"
           /\ Len(batch'.uploads) > Len(batch.uploads)
           /\ batch'.uploads[Len(batch'.uploads)].resp # "ok") =>
              /\ batch'.uploads[Len(batch'.uploads)].fi = batch.fi
              /\ batch'.runs = batch.runs
              /\ batch'.pc = "image"
              /\ batch'.fi = batch.fi + 1
              /\ batch'.exitCode = -1]_vars
    /\ [](batch # <<>> =>
            /\ \A i \in FailedUploads : RunsOfImage(i) = {}
            /\ (batch.pc = "done" /\ batch.exitCode = 0) =>
                  /\ \A i \in (1..Len(batch.inv.files)) \ FailedUploads :
                        Cardinality(RunsOfImage(i)) =
                            Len(batch.inv.expressions) * Len(batch.inv.combos)
                                * batch.inv.repeats
                  /\ \A i, j \in 1..Len(batch.inv.files) :
                        i < j => \A k \in RunsOfImage(i) :
                                    \A l \in RunsOfImage(j) : k < l)

\* the upload of the first image failed, the second image was uploaded and
\* all its runs were submitted, and the invocation ended with exit code 0
C30_Witness ==
    /\ batch # <<>>
    /\ batch.pc = "done"
    /\ batch.exitCode = 0
    /\ Len(batch.uploads) = 2
    /\ batch.uploads[1].resp # "ok"
    /\ batch.uploads[2].resp = "ok"
    /\ batch.runs # <<>>
    /\ \A k \in 1..Len(batch.runs) :
          batch.runs[k].submitted /\ batch.runs[k].image = batch.inv.files[2]

(***************************************************************************)
(* The expression preset node (src/expression_preset/expression_preset.py):*)
(* the presets YAML file next to the module, the class-level cache and     *)
(* _load_presets.  A YAML value is a tagged record: t is its type, d the   *)
(* items of a mapping, s the text of a string, n a number (steps as they   *)
(* are, cfg and denoise in hundredths).  A Python dict with string keys is *)
(* a function on its keys.                                                 *)
(***************************************************************************)
MaxMtime == 2           \* modification times the file system hands out

YDict(d) == [t |-> "dict", d |-> d, s |-> "", n |-> 0]
YStr(s) == [t |-> "str", d |-> <<>>, s |-> s, n |-> 0]
YNum(n) == [t |-> "num", d |-> <<>>, s |-> "", n |-> n]
YNull == [t |-> "null", d |-> <<>>, s |-> "", n |-> 0]
YList == [t |-> "list", d |-> <<>>, s |-> "", n |-> 1]

\* bool(v) is False
Falsy(v) ==
    \/ v.t = "null"
    \/ v.t = "dict" /\ DOMAIN v.d = {}
    \/ v.t = "str" /\ v.s = ""
    \/ v.t = "num" /\ v.n = 0
    \/ v.t = "list" /\ v.n = 0
\* d.get(k)
Get(d, k) == IF k \in DOMAIN d THEN d[k] ELSE YNull
\* v or {}
OrEmpty(v) == IF Falsy(v) THEN YDict(<<>>) ELSE v
\* str.strip() on the texts of the model
strip(s) == IF s = " " THEN "" ELSE IF s = " wink " THEN "wink" ELSE s

DEFAULT_PRESETS ==
    [defaults |->
        YDict([params |-> YDict([steps |-> YNum(25), cfg |-> YNum(800),
                                 denoise |-> YNum(48)])]),
     expressions |->
        YDict([neutral |->
                  YDict([expr_prompt |-> YStr("neutral expression, calm face, relaxed mouth, eyes open, relaxed eyes, emotionless, natural look, same eye color, consistent eye color"),
                         params |-> YDict([denoise |-> YNum(28)])]),
               smile |->
                  YDict([expr_prompt |-> YStr("gentle smile, soft smile, slightly curved mouth, happy but calm expression, eyes relaxed")]),
               big_smile_closed_eyes |->
                  YDict([expr_prompt |-> YStr("big smile, joyful expression, eyes closed, smiling eyes, wide curved mouth, cheerful, very happy expression, slightly raised cheeks")]),
               angry |->
                  YDict([expr_prompt |-> YStr("angry expression, furrowed eyebrows, sharp eyes, tight mouth"),
                         params |-> YDict([cfg |-> YNum(700), denoise |-> YNum(30)])]),
               sad |->
                  YDict([expr_prompt |-> YStr("sad expression, downcast eyes, slightly trembling lips, teary eyes")]),
               surprised |->
                  YDict([expr_prompt |-> YStr("surprised expression, wide eyes, slightly open mouth, raised eyebrows"),
                         params |-> YDict([cfg |-> YNum(700), denoise |-> YNum(30)])]),
               embarrassed |->
                  YDict([expr_prompt |-> YStr("embarrassed expression, blushing cheeks, awkward smile, eyes slightly averted")])])]

\* _deep_merge on the items of two dicts
RECURSIVE _deep_merge(_, _)
_deep_merge(base, override) ==
    [k \in DOMAIN base \cup DOMAIN override |->
        IF k \notin DOMAIN override THEN base[k]
        ELSE IF override[k].t = "dict" /\ Get(base, k).t = "dict"
        THEN YDict(_deep_merge(base[k].d, override[k].d))
        ELSE override[k]]

Returns(v) == [raised |-> "none", value |-> v]
Raises(e) == [raised |-> e, value |-> <<>>]

\* _normalize_yaml_schema
_normalize_yaml_schema(data) ==
    IF data.t # "dict" THEN Raises("ValueError")
    ELSE LET recommended == "expressions" \in DOMAIN data.d
             defaults == IF recommended THEN OrEmpty(Get(data.d, "defaults"))
                         ELSE YDict(<<>>)
             expressions == IF recommended
                            THEN OrEmpty(Get(data.d, "expressions"))
                            ELSE data
         IN  IF defaults.t # "dict" \/ expressions.t # "dict"
             THEN Raises("ValueError")
             ELSE Returns([defaults |-> defaults, expressions |-> expressions])

\* texts int() and float() accept
NumericTexts == {"30"}
\* int(v) and float(v) do not raise
Converts(v) == v.t = "num" \/ (v.t = "str" /\ v.s \in NumericTexts)
\* int(v), for steps
int(v) == IF v.t = "num" THEN v.n ELSE 30
\* float(v), in hundredths
float(v) == IF v.t = "num" THEN v.n ELSE 3000

\* one turn of the loop of _validate_and_compose_presets: the entry
\* composed for expression conf, or the exception raised
ComposeExpression(conf, defaults_params) ==
    IF conf.t # "dict" THEN Raises("ValueError")
    ELSE LET expr_prompt == Get(conf.d, "expr_prompt")
             params == OrEmpty(Get(conf.d, "params"))
         IN  IF expr_prompt.t # "str" \/ strip(expr_prompt.s) = ""
             THEN Raises("ValueError")
             ELSE IF params.t # "dict" THEN Raises("AttributeError")
             ELSE LET merged_params == _deep_merge(defaults_params, params.d)
                  IN  IF ~({"steps", "cfg", "denoise"} \subseteq DOMAIN merged_params)
                      THEN Raises("ValueError")
                      ELSE IF \E k \in {"steps", "cfg", "denoise"} :
                                 ~Converts(merged_params[k])
                      THEN Raises("ValueError")
                      ELSE Returns([expr_prompt |-> strip(expr_prompt.s),
                                    params |->
                                       [steps |-> int(merged_params["steps"]),
                                        cfg |-> float(merged_params["cfg"]),
                                        denoise |-> float(merged_params["denoise"])]])

\* _validate_and_compose_presets on the items of presets
_validate_and_compose_presets(presets) ==
    LET defaults == OrEmpty(Get(presets, "defaults"))
        defaults_params == OrEmpty(Get(defaults.d, "params"))
        expressions == OrEmpty(Get(presets, "expressions"))
        names == {name \in DOMAIN expressions.d : strip(name) # ""}
        composed == [name \in names |->
                        ComposeExpression(expressions.d[name], defaults_params.d)]
    IN  IF defaults.t # "dict" THEN Raises("AttributeError")
        ELSE IF defaults_params.t # "dict" \/ expressions.t # "dict"
        THEN Raises("ValueError")
        ELSE IF \E name \in names : composed[name].raised # "none"
        THEN Raises("ValueError")
        ELSE IF names = {} THEN Raises("ValueError")
        ELSE Returns([expressions |-> [name \in names |-> composed[name].value]])

\* the presets every fallback caches
BuiltInDefaults == _validate_and_compose_presets(DEFAULT_PRESETS).value

\* the contents the YAML file has in the model: what yaml.safe_load makes
\* of it, or that it raises
Unparseable == [t |-> "unparseable", d |-> <<>>, s |-> "", n |-> 0]
Wink(prompt) == YDict([expr_prompt |-> YStr(prompt)])
YAMLDocuments ==
    {Unparseable,
     YNull,
     YList,
     YDict(<<>>),
     YDict([expressions |-> YDict([wink |-> Wink("one eye closed")])]),
     YDict([wink |-> Wink(" wink ")]),
     YDict([expressions |-> YDict([wink |-> Wink(" ")])]),
     YDict([expressions |-> YStr("wink")]),
     YDict([expressions |-> YNull,
            defaults |-> YDict([params |-> YDict([steps |-> YStr("30")])])]),
     YDict([defaults |-> YDict([params |-> YNull]), expressions |-> YNull]),
     YDict([smile |-> YDict([expr_prompt |-> YStr("grin"),
                             params |-> YDict([steps |-> YStr("many")])])])}

\* the try block of _load_presets on the file's content
LoadYAML(content) ==
    IF content = Unparseable THEN Raises("YAMLError")
    ELSE LET normalized == _normalize_yaml_schema(content)
         IN  IF normalized.raised # "none" THEN normalized
             ELSE _validate_and_compose_presets(
                      _deep_merge(DEFAULT_PRESETS, normalized.value))

Missing == [t |-> "missing", d |-> <<>>, s |-> "", n |-> 0]
NoMtime == -1
NoPresets == <<>>

\* _load_presets: the cache after the call (what the call returns is the
\* cached presets)
_load_presets(e) ==
    LET fallback == [_CACHE_PRESETS |-> BuiltInDefaults, _CACHE_MTIME |-> NoMtime]
        unchanged == [_CACHE_PRESETS |-> e._CACHE_PRESETS,
                      _CACHE_MTIME |-> e._CACHE_MTIME]
    IN  IF ~e.yaml
        THEN IF e._CACHE_PRESETS = NoPresets THEN fallback ELSE unchanged
        ELSE IF e.file = Missing
        THEN IF e._CACHE_PRESETS = NoPresets THEN fallback ELSE unchanged
        ELSE IF e._CACHE_PRESETS # NoPresets /\ e.mtime = e._CACHE_MTIME
        THEN unchanged
        ELSE LET composed == LoadYAML(e.file)
             IN  IF composed.raised = "none"
                 THEN [_CACHE_PRESETS |-> composed.value, _CACHE_MTIME |-> e.mtime]
                 ELSE fallback

\* the module is imported (PyYAML installed or not); the file is there or
\* is not
PresetsInit ==
    /\ \E yaml \in BOOLEAN, content \in YAMLDocuments \cup {Missing} :
          ep = [yaml |-> yaml, file |-> content,
                mtime |-> IF content = Missing THEN NoMtime ELSE 0, now |-> 0,
                _CACHE_PRESETS |-> NoPresets, _CACHE_MTIME |-> NoMtime,
                seen |-> Missing, returned |-> NoPresets]
    /\ gen = <<>>
    /\ batch = <<>>
    /\ cl = <<>>
    /\ qry = <<>>
    /\ StateIdle
    /\ InjIdle
    /\ RunIdle

\* the file is created or rewritten; its modification time is the time of
\* the write, which a coarse timestamp can leave where it was
write_yaml(content, tick) ==
    /\ ep.file # content
    /\ ep.now + tick <= MaxMtime
    /\ ep' = [ep EXCEPT !.file = content, !.now = @ + tick, !.mtime = ep.now + tick]

\* the file is deleted
delete_yaml ==
    /\ ep.file # Missing
    /\ ep' = [ep EXCEPT !.file = Missing, !.mtime = NoMtime]

\* a call of _load_presets (INPUT_TYPES, apply): seen is the file as the
\* call found it, returned is what it returned
call_load_presets ==
    LET cache == _load_presets(ep)
    IN  ep' = [ep EXCEPT !._CACHE_PRESETS = cache._CACHE_PRESETS,
                         !._CACHE_MTIME = cache._CACHE_MTIME,
                         !.seen = ep.file,
                         !.returned = cache._CACHE_PRESETS]

PresetsNext ==
    \/ \E content \in YAMLDocuments, tick \in {0, 1} :
          write_yaml(content, tick)
             /\ UNCHANGED <<stateVars, injVars, runVars, gen, batch, cl, qry>>
    \/ delete_yaml /\ UNCHANGED <<stateVars, injVars, runVars, gen, batch, cl, qry>>
    \/ call_load_presets
          /\ UNCHANGED <<stateVars, injVars, runVars, gen, batch, cl, qry>>

SpecPresets == PresetsInit /\ [][PresetsNext]_vars

\* presets as _validate_and_compose_presets makes them: at least one
\* expression, each with a non-blank prompt and the three parameters
Validated(presets) ==
    /\ presets # NoPresets
    /\ DOMAIN presets = {"expressions"}
    /\ DOMAIN presets.expressions # {}
    /\ \A name \in DOMAIN presets.expressions :
          /\ presets.expressions[name].expr_prompt \notin {"", " "}
          /\ DOMAIN presets.expressions[name].params = {"steps", "cfg", "denoise"}

\* the file does not load: safe_load, the schema or the validation raises
Invalid(content) == content # Missing /\ LoadYAML(content).raised # "none"

(***************************************************************************)
(* C28: after any sequence of changes to the presets YAML file (created,   *)
(* modified, made invalid, deleted) interleaved with _load_presets calls,  *)
(* a _load_presets call returns a validated non-empty preset set, and      *)
(* when the file is missing or invalid at the time of the call the presets *)
(* returned are the built-in defaults.                                     *)
(***************************************************************************)
C28_FallbackIsBuiltInDefaults ==
    ep # <<>> /\ ep.returned # NoPresets =>
        /\ Validated(ep.returned)
        /\ (ep.seen = Missing \/ Invalid(ep.seen)) =>
              ep.returned = BuiltInDefaults

====
